---- MODULE Spec2Model ----
(***************************************************************************)
(* A model of denoland/file_test_runner.                                   *)
(*                                                                         *)
(*   Spec         the execution engine of src/runner.rs: run_tests,        *)
(*                run_category, run_tests_for_category and the thread pool *)
(*                (ThreadPoolTestRunner), over a bounded family of trees.  *)
(*   SpecReturns  the engine with a run function that always returns.      *)
(*   SpecCapture  the panic capture scopes of src/runner.rs                *)
(*                (TestResult::from_maybe_panic_or_result), run by several *)
(*                threads that nest scopes.                                *)
(*   SpecOutside  the scopes, and panics of threads that are in no scope.  *)
(*   SpecCollect  collect_tests of src/collection/mod.rs, then the engine. *)
(*   SpecTree     filter_children, partition and into_flat_category.      *)
(*   SpecStrategy the collection strategies of src/collection/strategies  *)
(*                over a bounded family of directories.                    *)
(*   SpecFromEnv, SpecParallelism, SpecParallelismLive                     *)
(*                Parallelism of src/parallelism.rs and its Semaphore.     *)
(*   SpecNotify, SpecNotifyLive                                            *)
(*                Notify of src/utils/notify.rs.                           *)
(*   SpecMessage  build_end_test_message of src/runner.rs.                 *)
(*   SpecMonitor  the engine together with the thread that checks for long *)
(*                running tests and the mutex of the pending tests.        *)
(*                                                                         *)
(* Names are sequences of tokens: the fully-qualified name "specs::a::t1"  *)
(* is <<"specs", "a", "t1">>.  Byte strings are sequences of tokens too,   *)
(* "\n" being the newline byte.                                            *)
(***************************************************************************)
EXTENDS Integers, Sequences, FiniteSets, Bags, TLC

VARIABLES
  \* ---- the execution engine (Spec)
  tree,                 \* the CollectedTestCategory handed to run_tests
  parallelism,          \* the parallelism computed by run_tests
  pc,                   \* position of the main thread
  stack,                \* the run_category frames of the main thread
  tests,                \* run_tests_for_category: the batch (tests: &[&CollectedTest])
  test,                 \* run_tests_for_category: the loops' `test`
  test_iterator,        \* number of tests the iterator has yielded
  pending,              \* run_tests_for_category: pending
  thread_pool_pending,  \* run_tests_for_category: thread_pool_pending
  sender,               \* the bounded channel main -> workers
  receiver,             \* the unbounded channel workers -> main
  workers,              \* the pool's threads: how many wait for a test, the
                        \* tests being run (a bag), how many have ended
  pending_tests,        \* PendingTests.pending (its keys)
  failures,             \* Context.failures
  stderr,               \* what the engine has printed, as events
  runs,                 \* history: every invocation of the run function, in order
  ends,                 \* history: every result the main thread processed, in order
  \* ---- the capture scopes (SpecCapture)
  hook_count,           \* GLOBAL_PANIC_HOOK_COUNT
  global_hook,          \* the process-wide panic hook
  host_hook,            \* history: the hook the host had before any scope
  local_hook,           \* LOCAL_PANIC_HOOK of every thread
  frames,               \* per thread: its active from_maybe_panic_or_result calls
  rust_backtrace,       \* whether Backtrace::capture() captures (RUST_BACKTRACE)
  returned,             \* history: the last call that returned
  entered,              \* history: how many scopes were entered so far
  \* ---- collection (SpecCollect) and the tree operations (SpecTree)
  options,              \* collect_and_run_tests: what the strategy returns,
                        \* filter_override, and the process's first argument
  collected,            \* history: what collect_tests returned
  subject,              \* the CollectedTestCategory the operations act on
  last_op,              \* history: the last operation, its input and outputs
  \* ---- the collection strategies (SpecStrategy)
  base,                 \* the directory on disk the strategy is given
  strategy_op,          \* history: the strategy applied and what it returned
  \* ---- Parallelism and its Semaphore (SpecParallelism)
  env,                  \* NO_CAPTURE, FILE_TEST_RUNNER_PARALLELISM and
                        \* std::thread::available_parallelism()
  parallelism_max,      \* Parallelism.max (0: not constructed yet)
  permits,              \* Semaphore.permits
  pool,                 \* the worker threads: where each is around a test
  started,              \* history: the last on_test_start that returned
  requested,            \* history: the n of the last set_parallelism that
                        \* returned and of the one under way (0: none)
  \* ---- Notify (SpecNotify, SpecNotifyLive)
  notified,             \* Notify.mutex: the flag
  waiters,              \* the threads that call wait_timeout
  notify_called,        \* history: notify was called
  \* ---- build_end_test_message (SpecMessage)
  message,              \* the result given and the message built for it
  \* ---- the long running tests' monitor (SpecMonitor)
  mutex,                \* the thread that holds the mutex of pending_tests
  monitor,              \* the monitor thread: its position
  finished,             \* PendingTests.finished
  reported              \* history: the tests the monitor printed as running
                        \* for more than 60 seconds

engineVars == <<tree, parallelism, pc, stack, tests, test, test_iterator, pending,
                thread_pool_pending, sender, receiver, workers, pending_tests,
                failures, stderr, runs, ends>>
captureVars == <<hook_count, global_hook, host_hook, local_hook, frames,
                 rust_backtrace, returned, entered>>
collectVars == <<options, collected, subject, last_op>>
strategyVars == <<base, strategy_op>>
parallelismVars == <<env, parallelism_max, permits, pool, started, requested>>
notifyVars == <<notified, waiters, notify_called>>
messageVars == <<message>>
monitorVars == <<mutex, monitor, finished, reported>>
auxVars == <<strategyVars, parallelismVars, notifyVars, messageVars, monitorVars>>
vars == <<engineVars, captureVars, collectVars, auxVars>>

\* ---------------------------------------------------------------- bounds
\* The most tests a tree holds.
MaxTests == 3
\* The largest parallelism run_tests computes.
MaxParallelism == 2
\* The threads that enter capture scopes.
MaxThreads == 2
\* The capture scopes entered in one behaviour, over all threads.
MaxScopes == 3
\* The most nodes (tests and categories) under the root of a tree a strategy
\* returns to collect_tests.
MaxCollected == 2
\* The most nodes under the root of a tree the tree operations are given.
MaxNodes == 4
\* The most entries, nested ones included, the directory given to a
\* collection strategy holds.
MaxEntries == 4
\* The threads that call wait_timeout on one Notify.
MaxWaiters == 3

\* ---------------------------------------------------------------- helpers
Range(s) == {s[i] : i \in 1..Len(s)}

RECURSIVE SumSeq(_)
SumSeq(s) == IF s = <<>> THEN 0 ELSE Head(s) + SumSeq(Tail(s))

RECURSIVE Concat(_)
Concat(ss) == IF ss = <<>> THEN <<>> ELSE Head(ss) \o Concat(Tail(ss))

\* ---------------------------------------------------------------- TestResult
Passed == [tag |-> "Passed"]
Ignored == [tag |-> "Ignored"]
Failed(output) == [tag |-> "Failed", output |-> output]
SubTests(sub_tests) == [tag |-> "SubTests", sub_tests |-> sub_tests]
SubTestResult(name, result) == [name |-> name, result |-> result]

\* A variant of is_failed that looks at the first nesting level only.
is_failed_shallow(r) ==
  CASE r.tag \in {"Passed", "Ignored"} -> FALSE
    [] r.tag = "Failed" -> TRUE
    [] r.tag = "SubTests" ->
         \E i \in 1..Len(r.sub_tests) : r.sub_tests[i].result.tag = "Failed"

RECURSIVE is_failed(_)
is_failed(r) ==
  CASE r.tag \in {"Passed", "Ignored"} -> FALSE
    [] r.tag = "Failed" -> TRUE
    [] r.tag = "SubTests" ->
         \E i \in 1..Len(r.sub_tests) : is_failed(r.sub_tests[i].result)

\* build_end_test_message's inner fn: (runner_output, failure_output) after
\* the sub tests from index i on were written.
RECURSIVE output_sub_tests(_, _, _, _)
output_sub_tests(sub_tests, i, runner_output, failure_output) ==
  IF i > Len(sub_tests) THEN <<runner_output, failure_output>>
  ELSE
    LET s == sub_tests[i]
        after ==
          CASE s.result.tag = "Passed" ->
                 <<Append(runner_output, <<s.name, "ok">>), failure_output>>
            [] s.result.tag = "Ignored" ->
                 <<Append(runner_output, <<s.name, "ignored">>), failure_output>>
            [] s.result.tag = "Failed" ->
                 <<Append(runner_output, <<s.name, "fail">>),
                   (IF failure_output # <<>> THEN Append(failure_output, "\n")
                    ELSE failure_output) \o s.result.output>>
            [] s.result.tag = "SubTests" ->
                 IF s.result.sub_tests = <<>>
                 THEN <<runner_output \o <<<<s.name>>, <<"<no sub-tests>">>>>,
                        failure_output>>
                 ELSE output_sub_tests(s.result.sub_tests, 1,
                        Append(runner_output, <<s.name>>), failure_output)
    IN output_sub_tests(sub_tests, i + 1, after[1], after[2])

\* (runner_output, failure_output); the duration is not modelled.
build_end_test_message(result) ==
  CASE result.tag = "Passed" -> << <<<<"ok">>>>, <<>> >>
    [] result.tag = "Ignored" -> << <<<<"ignored">>>>, <<>> >>
    [] result.tag = "Failed" -> << <<<<"fail">>>>, result.output >>
    [] result.tag = "SubTests" ->
         output_sub_tests(result.sub_tests, 1, <<<<"">>>>, <<>>)

\* ---------------------------------------------------------------- the tree
CollectedTest(name) == [kind |-> "Test", name |-> name, path |-> name]
CollectedTestCategory(name, children) ==
  [kind |-> "Category", name |-> name, path |-> name, children |-> children]

RECURSIVE test_count(_)
test_count(category) ==
  SumSeq([i \in 1..Len(category.children) |->
            IF category.children[i].kind = "Category"
            THEN test_count(category.children[i]) ELSE 1])

\* str::contains: filter occurs in name as a contiguous run of characters.
Contains(name, filter) ==
  \E i \in 1..(Len(name) + 1) :
    /\ i + Len(filter) - 1 <= Len(name)
    /\ SubSeq(name, i, i + Len(filter) - 1) = filter

\* A variant of is_empty: children.is_empty().
is_empty_shallow(category) == category.children = <<>>

\* CollectedTestCategory::is_empty: no child is a Test or a non-empty Category.
RECURSIVE is_empty(_)
is_empty(category) ==
  \A i \in 1..Len(category.children) :
    /\ category.children[i].kind = "Category"
    /\ is_empty(category.children[i])

\* A variant of RetainsTest: the name starts with the filter.
RetainsTestPrefix(t, filter) ==
  Len(filter) <= Len(t.name) /\ SubSeq(t.name, 1, Len(filter)) = filter

\* filter_children's closure on a Test (line 49).
RetainsTest(t, filter) == Contains(t.name, filter)

\* A variant of RetainsCategory: emptiness is looked at before the category's
\* children are filtered.
RetainsCategoryBefore(before, after) == ~is_empty(before)

\* filter_children's closure on a Category (lines 46-47): before is the child
\* as it was, after the child once c.filter_children(filter) has run.
RetainsCategory(before, after) == ~is_empty(after)

\* CollectedTestCategory::filter_children: retain_mut keeps the children the
\* closure accepts, in order; a kept Category stays filtered.
RECURSIVE filter_children(_, _)
filter_children(category, filter) ==
  LET retained(child) ==
        IF child.kind = "Category"
        THEN LET after == filter_children(child, filter)
             IN IF RetainsCategory(child, after) THEN <<after>> ELSE <<>>
        ELSE IF RetainsTest(child, filter) THEN <<child>> ELSE <<>>
  IN [category EXCEPT !.children =
        Concat([i \in 1..Len(category.children) |-> retained(category.children[i])])]

\* A variant of flat_visit: a category's tests come before the tests of its
\* sub-categories.
RECURSIVE flat_visit_tests_first(_)
flat_visit_tests_first(children) ==
  SelectSeq(children, LAMBDA ch : ch.kind = "Test") \o
  Concat([i \in 1..Len(children) |->
            IF children[i].kind = "Category"
            THEN flat_visit_tests_first(children[i].children) ELSE <<>>])

\* into_flat_category's inner fn collect_tests (lines 75-89): what it pushes
\* to output for children, in order.
RECURSIVE flat_visit(_)
flat_visit(children) ==
  Concat([i \in 1..Len(children) |->
            IF children[i].kind = "Category"
            THEN flat_visit(children[i].children)
            ELSE <<children[i]>>])

\* CollectedTestCategory::into_flat_category.
into_flat_category(category) ==
  [kind |-> "Category", name |-> category.name, path |-> category.path,
   children |-> flat_visit(category.children)]

\* A variant of Predicate: the test's name starts with p.
PredicatePrefix(p, t) ==
  Len(p) <= Len(t.name) /\ SubSeq(t.name, 1, Len(p)) = p

\* The predicates given to partition: the test's name contains p.
Predicate(p, t) == Contains(t.name, p)

\* A variant of PushesCategory: a side gets the category whatever it holds.
PushesCategoryAlways(side) == TRUE

\* partition, lines 114 and 118: a side of a sub-category is pushed.
PushesCategory(side) == ~is_empty(side)

\* A variant of NonMatchingTests: a matching test is pushed to both sides.
NonMatchingTestsAll(p, t) == <<t>>

\* partition, lines 124-128: what a Test adds to non_matching_children.
NonMatchingTests(p, t) == IF Predicate(p, t) THEN <<>> ELSE <<t>>

\* A variant of PartitionSide: the side keeps the name and drops the path.
PartitionSideNoPath(category, children) ==
  [kind |-> "Category", name |-> category.name, path |-> <<>>,
   children |-> children]

\* partition, lines 133-143: a side of category with its children.
PartitionSide(category, children) ==
  [kind |-> "Category", name |-> category.name, path |-> category.path,
   children |-> children]

\* CollectedTestCategory::partition: <<matching, non_matching>>.
RECURSIVE partition(_, _)
partition(category, p) ==
  LET pushed(child) ==
        IF child.kind = "Category"
        THEN LET sides == partition(child, p)
             IN <<IF PushesCategory(sides[1]) THEN <<sides[1]>> ELSE <<>>,
                  IF PushesCategory(sides[2]) THEN <<sides[2]>> ELSE <<>> >>
        ELSE <<IF Predicate(p, child) THEN <<child>> ELSE <<>>,
               NonMatchingTests(p, child)>>
      both == [i \in 1..Len(category.children) |-> pushed(category.children[i])]
      matching_children == Concat([i \in 1..Len(both) |-> both[i][1]])
      non_matching_children == Concat([i \in 1..Len(both) |-> both[i][2]])
  IN <<PartitionSide(category, matching_children),
       PartitionSide(category, non_matching_children)>>

TestTok == <<"t1", "t2", "t3", "t4", "t5", "t6">>
TestsOf(name, n) == [k \in 1..n |-> CollectedTest(Append(name, TestTok[k]))]

\* The trees run_tests is given: a root "specs" with the sub-categories
\* specs::a (holding specs::a::b) and specs::c; n[1..4] tests sit directly in
\* specs, specs::a, specs::a::b and specs::c. The root lists its
\* sub-categories before its tests, specs::a its tests before specs::a::b.
Tree(n) ==
  LET b == CollectedTestCategory(<<"specs", "a", "b">>,
                                 TestsOf(<<"specs", "a", "b">>, n[3]))
      a == CollectedTestCategory(<<"specs", "a">>,
                                 TestsOf(<<"specs", "a">>, n[2]) \o <<b>>)
      c == CollectedTestCategory(<<"specs", "c">>,
                                 TestsOf(<<"specs", "c">>, n[4]))
  IN CollectedTestCategory(<<"specs">>, <<a, c>> \o TestsOf(<<"specs">>, n[1]))

TestCounts ==
  {n \in [1..4 -> 0..MaxTests] : n[1] + n[2] + n[3] + n[4] <= MaxTests}

RECURSIVE AllTests(_)
AllTests(category) ==
  Concat([i \in 1..Len(category.children) |->
            IF category.children[i].kind = "Category"
            THEN AllTests(category.children[i])
            ELSE <<category.children[i]>>])


SelectKind(children, kind) == SelectSeq(children, LAMBDA ch : ch.kind = kind)

\* ---------------------------------------------------------------- run function
\* What the user's run function can do for a test: return a TestResult or
\* panic (an unwinding panic the function does not catch itself).
RunResults ==
  { Passed,
    Failed(<<"e1">>),
    SubTests(<<SubTestResult("s1", Passed),
               SubTestResult("s2",
                 SubTests(<<SubTestResult("s3", Failed(<<"e2">>))>>))>>) }

\* ---------------------------------------------------------------- run_tests
\* The parallelism run_tests computes. env_var is the parsed value of
\* FILE_TEST_RUNNER_PARALLELISM (-1: unset or not a number); available is
\* std::thread::available_parallelism() (0: it returned an error).
Parallelism(parallel, env_var, available) ==
  LET fallback == (IF available = 0 THEN 2 ELSE available) - 1
      amount == IF env_var >= 0 THEN env_var ELSE fallback
  IN IF parallel THEN (IF amount > 1 THEN amount ELSE 1) ELSE 1

\* A reference into the tree is the sequence of child indexes leading to it.
RECURSIVE CategoryAt(_, _)
CategoryAt(category, ref) ==
  IF ref = <<>> THEN category
  ELSE CategoryAt(category.children[Head(ref)], Tail(ref))

\* The indexes of the children of the given kind, in order.
IndexesOfKind(children, kind) ==
  SelectSeq([i \in 1..Len(children) |-> i], LAMBDA i : children[i].kind = kind)

\* A call of run_category: &category, its local `categories` (references to
\* children) and the position of its second loop.
Frame(ref) == [category |-> ref, categories |-> <<>>, i |-> 0]
Top == stack[Len(stack)]
SetTop(frame) == [stack EXCEPT ![Len(stack)] = frame]

NoTest == CollectedTest(<<>>)
NoWorkers == [idle |-> 0, running |-> EmptyBag, dead |-> 0]
\* Every thread of the pool has ended: both channels are disconnected.
AllDead == workers.idle = 0 /\ workers.running = EmptyBag

EngineInit ==
  /\ tree \in {Tree(n) : n \in TestCounts}
  /\ parallelism = 0
  /\ pc = "run_tests"
  /\ stack = <<>>
  /\ tests = <<>>
  /\ test = NoTest
  /\ test_iterator = 0
  /\ pending = 0
  /\ thread_pool_pending = 0
  /\ sender = <<>>
  /\ receiver = <<>>
  /\ workers = NoWorkers
  /\ pending_tests = {}
  /\ failures = <<>>
  /\ stderr = <<>>
  /\ runs = <<>>
  /\ ends = <<>>

\* run_tests up to its call of run_category.
RunTests ==
  /\ pc = "run_tests"
  /\ IF test_count(tree) = 0
     THEN /\ pc' = "returned"
          /\ UNCHANGED <<parallelism, workers, stack>>
     ELSE \E parallel \in BOOLEAN, env_var \in -1..MaxParallelism,
             available \in 0..(MaxParallelism + 1) :
            LET p == Parallelism(parallel, env_var, available) IN
            /\ p <= MaxParallelism
            /\ parallelism' = p
            /\ workers' = IF p > 1
                          THEN [NoWorkers EXCEPT !.idle = p]
                          ELSE NoWorkers
            /\ stack' = <<Frame(<<>>)>>
            /\ pc' = "run_category"
  /\ UNCHANGED <<tree, test, tests, test_iterator, pending, thread_pool_pending,
                 sender, receiver, pending_tests, failures, stderr, runs, ends>>

\* run_tests_for_category's choice: context.thread_pool_runner is Some and
\* the batch has more than one test.
UsesPool(batch) == parallelism > 1 /\ Len(batch) > 1

\* A variant of BatchPending: the count starts at the pool's size.
BatchPendingSize(batch) == parallelism

\* `let mut pending = tests.len()`.
BatchPending(batch) == Len(batch)

\* A variant of ThreadPoolPending: room for the whole batch.
ThreadPoolPendingBatch(batch) == Len(batch)

\* `let mut thread_pool_pending = runner.size`.
ThreadPoolPending(batch) == parallelism

\* A variant of NextTest: the batch is walked from its end.
NextTestReversed == tests[Len(tests) - test_iterator]

\* test_iterator.next() of the pool loop, `test` of the sequential for loop.
NextTest == tests[test_iterator + 1]

\* A variant of SeqContinue: the loop is left at the first failed result.
SeqContinueFailFast(result) ==
  IF test_iterator < Len(tests) /\ ~is_failed(result) THEN "seq_loop" ELSE "descend"

\* Where the sequential loop goes after a result: to its next test while
\* there is one, whatever the result was.
SeqContinue(result) ==
  IF test_iterator < Len(tests) THEN "seq_loop" ELSE "descend"

\* A variant of PoolLoopContinues: the loop ends once every test was queued.
PoolLoopContinuesQueued(pending_after) == test_iterator < Len(tests)

\* `while pending > 0`, evaluated after `pending -= 1`.
PoolLoopContinues(pending_after) == pending_after > 0

\* run_category up to its first loop, and the head of run_tests_for_category.
RunCategory ==
  /\ pc = "run_category"
  /\ LET category == CategoryAt(tree, Top.category)
         children == category.children
         batch == SelectKind(children, "Test")
         categories == IndexesOfKind(children, "Category")
     IN /\ stack' = SetTop([Top EXCEPT !.categories = categories, !.i = 1])
        /\ IF batch # <<>>
           THEN /\ stderr' = Append(stderr, <<"Running", category.name>>)
                /\ tests' = batch
                /\ test_iterator' = 0
                /\ IF UsesPool(batch)
                   THEN /\ pending' = BatchPending(batch)
                        /\ thread_pool_pending' = ThreadPoolPending(batch)
                        /\ pc' = "pool_loop"
                   ELSE /\ pc' = "seq_loop"
                        /\ UNCHANGED <<pending, thread_pool_pending>>
           ELSE /\ pc' = "descend"
                /\ UNCHANGED <<stderr, tests, test_iterator, pending,
                               thread_pool_pending>>
  /\ UNCHANGED <<tree, test, parallelism, sender, receiver, workers, pending_tests,
                 failures, runs, ends>>

\* context.failures after a result was processed (lines 293-302, 312-321).
FailuresAfter(data, result) ==
  IF is_failed(result)
  THEN Append(failures,
              [test |-> data, output |-> build_end_test_message(result)[2]])
  ELSE failures

\* The sequential loop: print the test's name and call the run function.
SeqStart ==
  /\ pc = "seq_loop"
  /\ test_iterator < Len(tests)
  /\ test_iterator' = test_iterator + 1
  /\ test' = NextTest
  /\ stderr' = Append(stderr, <<"test", NextTest.name>>)
  /\ runs' = Append(runs, NextTest.name)
  /\ pc' = "seq_running"
  /\ UNCHANGED <<tree, parallelism, stack, tests, pending, thread_pool_pending,
                 sender, receiver, workers, pending_tests, failures, ends>>

\* The run function returns on the main thread and its result is processed.
SeqReturn ==
  /\ pc = "seq_running"
  /\ \E result \in RunResults :
       /\ stderr' = Append(stderr, <<"end", test.name,
                                     build_end_test_message(result)[1]>>)
       /\ failures' = FailuresAfter(test, result)
       /\ ends' = Append(ends, [name |-> test.name, result |-> result])
       /\ pc' = SeqContinue(result)
  /\ UNCHANGED <<tree, parallelism, stack, tests, test_iterator, pending,
                 thread_pool_pending, sender, receiver, workers, pending_tests,
                 runs, test>>

\* The run function panics on the main thread: nothing between it and the
\* caller of run_tests catches the unwinding.
SeqPanic ==
  /\ pc = "seq_running"
  /\ pc' = "panicked"
  /\ UNCHANGED <<tree, test, parallelism, stack, tests, test_iterator, pending,
                 thread_pool_pending, sender, receiver, workers, pending_tests,
                 failures, stderr, runs, ends>>

\* queue_test, first half: the entry of the pending map.
QueueTest ==
  /\ pc = "pool_loop"
  /\ pending > 0
  /\ thread_pool_pending > 0
  /\ test_iterator < Len(tests)
  /\ test_iterator' = test_iterator + 1
  /\ pending_tests' = pending_tests \cup {NextTest.name}
  /\ test' = NextTest
  /\ pc' = "pool_send"
  /\ UNCHANGED <<tree, parallelism, stack, tests, pending, thread_pool_pending,
                 sender, receiver, workers, failures, stderr, runs, ends>>

\* queue_test, second half: the send on the bounded channel, which blocks
\* while the channel is full and fails once every worker is gone.
QueueSend ==
  /\ pc = "pool_send"
  /\ IF AllDead
     THEN /\ pc' = "panicked"
          /\ UNCHANGED <<sender, thread_pool_pending>>
     ELSE /\ Len(sender) < parallelism
          /\ sender' = Append(sender, test)
          /\ thread_pool_pending' = thread_pool_pending - 1
          /\ pc' = "pool_loop"
  /\ UNCHANGED <<tree, test, parallelism, stack, tests, test_iterator, pending,
                 receiver, workers, pending_tests, failures, stderr, runs, ends>>

\* A variant of AfterRemove: the entry of the test stays in the map.
AfterRemoveNone(keys, name) == keys

\* receive_result: `pending.remove(&data.0.name)`, which does nothing when
\* the map has no such key.
AfterRemove(keys, name) == keys \ {name}

\* A variant of ThreadPoolPendingAfter: the place of the test that ended is
\* not given back.
ThreadPoolPendingAfterSame(n) == n

\* `thread_pool_pending += 1`, at the end of the outer loop's body.
ThreadPoolPendingAfter(n) == n + 1

\* receive_result and the rest of the outer loop's body.
ReceiveResult ==
  /\ pc = "pool_loop"
  /\ pending > 0
  /\ ~(thread_pool_pending > 0 /\ test_iterator < Len(tests))
  /\ IF receiver # <<>>
     THEN LET data == Head(receiver)[1]
              result == Head(receiver)[2]
          IN /\ receiver' = Tail(receiver)
             /\ pending_tests' = AfterRemove(pending_tests, data.name)
             /\ stderr' = Append(stderr, <<"end", data.name,
                                           build_end_test_message(result)[1]>>)
             /\ failures' = FailuresAfter(data, result)
             /\ ends' = Append(ends, [name |-> data.name, result |-> result])
             /\ pending' = pending - 1
             /\ thread_pool_pending' = ThreadPoolPendingAfter(thread_pool_pending)
             /\ pc' = IF PoolLoopContinues(pending - 1)
                      THEN "pool_loop" ELSE "descend"
     ELSE /\ AllDead
          /\ pc' = "panicked"
          /\ UNCHANGED <<receiver, pending_tests, stderr, failures, ends,
                         pending, thread_pool_pending>>
  /\ UNCHANGED <<tree, test, parallelism, stack, tests, test_iterator, sender,
                 workers, runs>>

\* A worker takes a test from the channel and calls the run function.
WorkerRecv ==
  /\ workers.idle > 0
  /\ sender # <<>>
  /\ sender' = Tail(sender)
  /\ workers' = [workers EXCEPT !.idle = @ - 1,
                                !.running = @ (+) SetToBag({Head(sender)})]
  /\ runs' = Append(runs, Head(sender).name)
  /\ UNCHANGED <<tree, test, parallelism, pc, stack, tests, test_iterator, pending,
                 thread_pool_pending, receiver, pending_tests, failures,
                 stderr, ends>>

\* The run function returns on a worker, which sends the result.
WorkerReturn(value) ==
  /\ BagIn(value, workers.running)
  /\ \E result \in RunResults :
       receiver' = Append(receiver, <<value, result>>)
  /\ workers' = [workers EXCEPT !.idle = @ + 1,
                                !.running = @ (-) SetToBag({value})]
  /\ UNCHANGED <<tree, test, parallelism, pc, stack, tests, test_iterator, pending,
                 thread_pool_pending, sender, pending_tests, failures, stderr,
                 runs, ends>>

\* The run function panics on a worker: the worker's closure has no
\* catch_unwind, so the thread unwinds and ends, dropping its ends of both
\* channels, and nothing is sent.
WorkerPanic(value) ==
  /\ BagIn(value, workers.running)
  /\ workers' = [workers EXCEPT !.dead = @ + 1,
                                !.running = @ (-) SetToBag({value})]
  /\ UNCHANGED <<tree, test, parallelism, pc, stack, tests, test_iterator, pending,
                 thread_pool_pending, sender, receiver, pending_tests, failures,
                 stderr, runs, ends>>

\* run_category's second loop calls run_category for the next sub-category.
Descend ==
  /\ pc = "descend"
  /\ Top.i <= Len(Top.categories)
  /\ stack' = Append(SetTop([Top EXCEPT !.i = Top.i + 1]),
                     Frame(Append(Top.category, Top.categories[Top.i])))
  /\ pc' = "run_category"
  /\ UNCHANGED <<tree, test, parallelism, tests, test_iterator, pending,
                 thread_pool_pending, sender, receiver, workers, pending_tests,
                 failures, stderr, runs, ends>>

\* run_category returns to the run_category that called it.
ReturnCategory ==
  /\ pc = "descend"
  /\ Top.i > Len(Top.categories)
  /\ Len(stack) > 1
  /\ stack' = SubSeq(stack, 1, Len(stack) - 1)
  /\ UNCHANGED <<tree, test, parallelism, pc, tests, test_iterator, pending,
                 thread_pool_pending, sender, receiver, workers, pending_tests,
                 failures, stderr, runs, ends>>

\* The outermost run_category returns to run_tests, which prints the summary
\* and panics with "<n> failed of <total>" when there are failures.
Finish ==
  /\ pc = "descend"
  /\ Top.i > Len(Top.categories)
  /\ Len(stack) = 1
  /\ stack' = <<>>
  /\ IF failures # <<>>
     THEN /\ stderr' = Append(stderr, <<"failed of", Len(failures), test_count(tree)>>)
          /\ pc' = "failed"
     ELSE /\ stderr' = Append(stderr, <<"tests passed", test_count(tree)>>)
          /\ pc' = "passed"
  /\ UNCHANGED <<tree, test, parallelism, tests, test_iterator, pending,
                 thread_pool_pending, sender, receiver, workers, pending_tests,
                 failures, runs, ends>>

\* ---------------------------------------------------------------- the monitor
\* The thread ThreadPoolTestRunner::new spawns to check for long running
\* tests, and the mutex of pending_tests. queue_test and receive_result hold
\* the mutex for the one statement that inserts or removes an entry; the
\* monitor holds it from `pending_tests.lock()` to the end of that iteration
\* of its loop, where `data` is dropped.

\* ThreadPoolTestRunner::new: the monitor exists when the pool does.
SpawnMonitor ==
  /\ monitor' = IF parallelism' > 1 THEN "sleeping" ELSE monitor
  /\ UNCHANGED <<mutex, finished, reported>>

\* The monitor's sleep of one second is over and it locks the mutex: it
\* leaves its loop when `finished` is set.
MonitorWake ==
  /\ monitor = "sleeping"
  /\ mutex = "free"
  /\ IF finished
     THEN /\ monitor' = "ended"
          /\ UNCHANGED mutex
     ELSE /\ monitor' = "locked"
          /\ mutex' = "monitor"
  /\ UNCHANGED <<finished, reported>>
  /\ UNCHANGED engineVars

\* A variant of AfterEvict: the monitor prints and leaves the entries.
AfterEvictNone(keys, long_tests) == keys

\* `data.pending.remove(&test)` for every test of long_tests.
AfterEvict(keys, long_tests) == keys \ long_tests

\* A variant of AfterReport: the monitor gives up on a long running test and
\* sends a Failed result for it.
AfterReportTimedOut(results, long_tests) ==
  IF long_tests = {} THEN results
  ELSE Append(results,
              <<CollectedTest(CHOOSE name \in long_tests : TRUE), Failed(<<>>)>>)

\* The channel of results after the monitor's second loop: the monitor has
\* no end of either channel.
AfterReport(results, long_tests) == results

\* A variant of GuardAfterIteration: `data` outlives the loop's body.
GuardAfterIterationHeld == "monitor"

\* The mutex at the end of an iteration of the monitor's loop: `data` is
\* dropped before the next sleep.
GuardAfterIteration == "free"

\* The monitor's two loops and the end of the iteration: long_tests gets
\* the keys whose Instant is more than 60 seconds old (Instants are not
\* modelled: any of the entries may be that old); every one is printed and
\* its entry removed; then the monitor sleeps again.
MonitorReport(long_tests) ==
  /\ monitor = "locked"
  /\ mutex = "monitor"
  /\ long_tests \subseteq pending_tests
  /\ reported' = reported (+) SetToBag(
         {[name |-> name,
           received |-> \E i \in 1..Len(ends) : ends[i].name = name] :
            name \in long_tests})
  /\ pending_tests' = AfterEvict(pending_tests, long_tests)
  /\ receiver' = AfterReport(receiver, long_tests)
  /\ monitor' = "sleeping"
  /\ mutex' = GuardAfterIteration
  /\ UNCHANGED finished
  /\ UNCHANGED <<tree, parallelism, pc, stack, tests, test, test_iterator, pending,
                 thread_pool_pending, sender, workers, failures, stderr, runs,
                 ends>>

\* ---------------------------------------------------------------- capture scopes
\* TestResult::from_maybe_panic_or_result. A scope is named by the thread
\* that entered it and its nesting depth on that thread; the thread-local
\* hook a scope installs is named like the scope, since the closure owns the
\* scope's panic_message buffer. Bytes are tokens <<text, thread, depth>>.
Threads == 1..MaxThreads
NoHook == <<0, 0>>
Newline == <<"\n", 0, 0>>
PanicInfo(id) == <<"panicked", id[1], id[2]>>
Backtrace(id) == <<"backtrace", id[1], id[2]>>
NoReturn == [kind |-> "none"]

\* What a protected closure can return to from_maybe_panic_or_result.
ClosureResults == {Ignored, Failed(<<<<"output", 0, 0>>>>)}

\* The process-wide hook before any scope: Rust's default hook, or a hook the
\* host program registered with std::panic::set_hook.
HostHooks == {"default", "custom"}

CaptureIdle ==
  /\ hook_count = 0
  /\ global_hook = "default"
  /\ host_hook = "default"
  /\ local_hook = <<>>
  /\ frames = <<>>
  /\ rust_backtrace = FALSE
  /\ returned = NoReturn
  /\ entered = 0

CaptureInit ==
  /\ hook_count = 0
  /\ host_hook \in HostHooks
  /\ global_hook = host_hook
  /\ local_hook = [t \in Threads |-> NoHook]
  /\ frames = [t \in Threads |-> <<>>]
  /\ rust_backtrace \in BOOLEAN
  /\ returned = NoReturn
  /\ entered = 0

TopFrame(t) == frames[t][Len(frames[t])]
SetTopFrame(t, frame) == [frames EXCEPT ![t][Len(frames[t])] = frame]

\* A thread may call from_maybe_panic* when it is outside every scope or
\* inside the closure of its innermost scope.
CanCall(t) == IF frames[t] = <<>> THEN TRUE ELSE TopFrame(t).pc = "running"

\* Lines 89-104: under the count's mutex, the first scope replaces the
\* process-wide hook by the one that delegates to LOCAL_PANIC_HOOK.
\* from_maybe_panic (lines 72-79) enters the same code with a closure that
\* calls func and returns Passed.
EnterScope(t, func) ==
  /\ entered < MaxScopes
  /\ CanCall(t)
  /\ entered' = entered + 1
  /\ global_hook' = IF hook_count = 0 THEN "delegate" ELSE global_hook
  /\ hook_count' = hook_count + 1
  /\ frames' = [frames EXCEPT ![t] =
                  Append(@, [id |-> <<t, Len(@) + 1>>,
                             func |-> func,
                             pc |-> "counted",
                             panic_message |-> <<>>,
                             previous_panic_hook |-> NoHook,
                             result |-> [ok |-> FALSE]])]
  /\ UNCHANGED <<host_hook, local_hook, rust_backtrace, returned>>

\* A variant of InstalledHook: the slot is one for the whole process, the
\* hook is seen by every thread.
InstalledHookEverywhere(hooks, t, id) == [u \in DOMAIN hooks |-> id]

\* Lines 108-123, LOCAL_PANIC_HOOK.with(|hook| hook.borrow_mut().replace(..)):
\* the slots of the threads after thread t has put the hook of scope id into
\* its own.
InstalledHook(hooks, t, id) == [hooks EXCEPT ![t] = id]

\* Lines 106-123: the scope's buffer and hook; the hook replaces the thread's.
InstallLocalHook(t) ==
  /\ frames[t] # <<>>
  /\ TopFrame(t).pc = "counted"
  /\ frames' = SetTopFrame(t, [TopFrame(t) EXCEPT
                                 !.previous_panic_hook = local_hook[t],
                                 !.pc = "running"])
  /\ local_hook' = InstalledHook(local_hook, t, TopFrame(t).id)
  /\ UNCHANGED <<hook_count, global_hook, host_hook, rust_backtrace, returned,
                 entered>>

\* Line 125, the closure returns: catch_unwind gives Ok(value).
ClosureReturns(t) ==
  /\ frames[t] # <<>>
  /\ TopFrame(t).pc = "running"
  /\ \E value \in ClosureResults :
       frames' = SetTopFrame(t, [TopFrame(t) EXCEPT
                   !.pc = "caught",
                   !.result = [ok |-> TRUE,
                               value |-> IF TopFrame(t).func = "from_maybe_panic"
                                         THEN Passed ELSE value]])
  /\ UNCHANGED <<hook_count, global_hook, host_hook, local_hook, rust_backtrace,
                 returned, entered>>

\* A variant of HookOf: LOCAL_PANIC_HOOK is one slot for the whole process.
HookOfShared(t) == local_hook[1]

\* LOCAL_PANIC_HOOK.with(..) on the panicking thread (lines 95-99).
HookOf(t) == local_hook[t]

\* What a scope's hook appends to its buffer (lines 111-121): the panic's
\* info, then a newline and the backtrace when capture_backtrace gave one.
HookBytes(id) ==
  <<PanicInfo(id)>> \o (IF rust_backtrace THEN <<Newline, Backtrace(id)>> ELSE <<>>)

\* The frames of every thread after the process-wide hook has run on thread
\* t for a panic raised at id: when the hook is the delegating one it calls
\* the hook in t's slot, if there is one, which appends to the buffer it owns.
AfterHook(t, id) ==
  LET hook == IF global_hook = "delegate" THEN HookOf(t) ELSE NoHook
  IN [u \in Threads |->
        [k \in 1..Len(frames[u]) |->
           IF frames[u][k].id = hook
           THEN [frames[u][k] EXCEPT
                   !.panic_message = @ \o HookBytes(id)]
           ELSE frames[u][k]]]

\* The frames of every thread after thread t has panicked in the closure of
\* its innermost scope: the process-wide hook runs on t, then catch_unwind of
\* the innermost scope gives Err.
AfterPanic(t) ==
  [AfterHook(t, TopFrame(t).id) EXCEPT ![t][Len(frames[t])] =
     [@ EXCEPT !.pc = "caught", !.result = [ok |-> FALSE]]]

\* A thread that is in no scope panics, in code of the host program: the
\* process-wide hook runs on it. The place of the panic is <<t, 0>>.
OutsidePanic(t) ==
  /\ frames[t] = <<>>
  /\ frames' = AfterHook(t, <<t, 0>>)
  /\ returned' = [kind |-> "panicked_outside", id |-> <<t, 0>>]
  /\ UNCHANGED <<hook_count, global_hook, host_hook, local_hook, rust_backtrace,
                 entered>>

\* Line 125, the closure panics.
ClosurePanics(t) ==
  /\ frames[t] # <<>>
  /\ TopFrame(t).pc = "running"
  /\ frames' = AfterPanic(t)
  /\ UNCHANGED <<hook_count, global_hook, host_hook, local_hook, rust_backtrace,
                 returned, entered>>

\* A variant of RestoredHook: the slot is cleared.
RestoredHookCleared(frame) == NoHook

\* Lines 127-130: what the thread's slot holds after the scope.
RestoredHook(frame) == frame.previous_panic_hook

RestoreLocalHook(t) ==
  /\ frames[t] # <<>>
  /\ TopFrame(t).pc = "caught"
  /\ local_hook' = [local_hook EXCEPT ![t] = RestoredHook(TopFrame(t))]
  /\ frames' = SetTopFrame(t, [TopFrame(t) EXCEPT !.pc = "restored"])
  /\ UNCHANGED <<hook_count, global_hook, host_hook, rust_backtrace, returned,
                 entered>>

\* A variant of ScopeResult: every result is wrapped into Failed.
ScopeResultWrapped(frame) == Failed(frame.panic_message)

\* Lines 142-144: result.unwrap_or_else(|_| Failed { output: panic_message }).
ScopeResult(frame) ==
  IF frame.result.ok THEN frame.result.value ELSE Failed(frame.panic_message)

\* A variant of TakesHook: the hook is taken whenever a scope is left.
TakesHookAlways(count) == TRUE

\* Line 136: `if *hook_count == 0`, after the decrement.
TakesHook(count) == count = 0

\* Lines 132-145: under the count's mutex, the last scope takes the
\* process-wide hook, which leaves Rust's default hook; then the call returns.
LeaveScope(t) ==
  /\ frames[t] # <<>>
  /\ TopFrame(t).pc = "restored"
  /\ hook_count' = hook_count - 1
  /\ global_hook' = IF TakesHook(hook_count - 1) THEN "default" ELSE global_hook
  /\ returned' = [kind |-> "returned",
                  id |-> TopFrame(t).id,
                  func |-> TopFrame(t).func,
                  result |-> TopFrame(t).result,
                  value |-> ScopeResult(TopFrame(t))]
  /\ frames' = [frames EXCEPT ![t] = SubSeq(@, 1, Len(@) - 1)]
  /\ UNCHANGED <<host_hook, local_hook, rust_backtrace, entered>>

\* ---------------------------------------------------------------- collection
\* Names are strings, one token a character: "s::a::1" is
\* <<"s", ":", ":", "a", ":", ":", "1">>. A path is the place of the file or
\* directory, given as the position of the node under the root.
Sep == <<":", ":">>
RootName == <<"s">>
\* A category directly under the root is called "a", one nested in it "b".
CategoryChar == <<"b", "a">>

\* char::is_alphanumeric on the characters names are written with.
is_alphanumeric(c) == c \in {"s", "a", "b", "z", "q", "1", "2"}

\* The child sequences of exactly n nodes a strategy can build under the
\* category called name at position pos, the first child being its i-th, with
\* categories nested at most d deep and tests called by the characters toks.
RECURSIVE Forests(_, _, _, _, _, _)
Forests(toks, name, pos, i, n, d) ==
  IF n = 0 THEN {<<>>}
  ELSE LET cname == name \o Sep \o <<CategoryChar[d]>>
           Items(k) ==
             IF k = 1
             THEN {[kind |-> "Test", name |-> name \o Sep \o <<c>>,
                    path |-> Append(pos, i)] : c \in toks}
                    \cup (IF d >= 1
                          THEN {[kind |-> "Category", name |-> cname,
                                 path |-> Append(pos, i), children |-> <<>>]}
                          ELSE {})
             ELSE IF d >= 1
                  THEN {[kind |-> "Category", name |-> cname,
                         path |-> Append(pos, i), children |-> ch] :
                          ch \in Forests(toks, cname, Append(pos, i), 1, k - 1, d - 1)}
                  ELSE {}
       IN UNION {{<<item>> \o rest :
                    item \in Items(k),
                    rest \in Forests(toks, name, pos, i + 1, n - k, d)} :
                  k \in 1..n}

\* The trees of at most max nodes under a root called "s".
TreesUpTo(toks, max) ==
  {[kind |-> "Category", name |-> RootName, path |-> <<>>, children |-> ch] :
     ch \in UNION {Forests(toks, RootName, <<>>, 1, n, 2) : n \in 0..max}}

None == [some |-> FALSE]
Some(value) == [some |-> TRUE, value |-> value]

\* What strategy.collect_tests(&base) returns: an error or a tree, in which
\* a name may hold '-' and two tests may have the same name.
StrategyResults ==
  {[ok |-> FALSE, error |-> "Io"]}
    \cup {[ok |-> TRUE, category |-> t] : t \in TreesUpTo({"1", "2", "-"}, MaxCollected)}

FilterOverrides == {None, Some(<<"1">>)}
\* std::env::args().nth(1): nothing, a flag, the empty string, a filter.
Args == {None, Some(<<"-", "q">>), Some(<<>>), Some(<<"2">>)}

\* parse_cli_arg_filter, given args().nth(1).
parse_cli_arg_filter(arg) ==
  IF arg.some /\ ~(arg.value # <<>> /\ Head(arg.value) = "-") /\ arg.value # <<>>
  THEN arg ELSE None

\* ensure_valid_test_names: the names it rejects, in the order it visits the
\* tests; the error it returns holds the first.
RECURSIVE InvalidNames(_)
InvalidNames(category) ==
  Concat([i \in 1..Len(category.children) |->
            IF category.children[i].kind = "Category"
            THEN InvalidNames(category.children[i])
            ELSE IF \A k \in 1..Len(category.children[i].name) :
                      \/ is_alphanumeric(category.children[i].name[k])
                      \/ category.children[i].name[k] \in {"_", ":"}
                 THEN <<>>
                 ELSE <<category.children[i].name>>])

ensure_valid_test_names(category) ==
  IF InvalidNames(category) = <<>>
  THEN [ok |-> TRUE]
  ELSE [ok |-> FALSE, error |-> "InvalidTestName",
        name |-> Head(InvalidNames(category))]

\* collect_tests, lines 219-223: the tree once the filter, if any, was applied.
Filtered(category, maybe_filter) ==
  IF maybe_filter.some THEN filter_children(category, maybe_filter.value)
  ELSE category

\* A variant of CheckedForTests: the tree is filtered first.
CheckedForTestsFiltered(category, maybe_filter) == Filtered(category, maybe_filter)

\* collect_tests, line 212: the tree is_empty is asked about.
CheckedForTests(category, maybe_filter) == category

\* A variant of Validated: the tree is filtered first.
ValidatedFiltered(category, maybe_filter) == Filtered(category, maybe_filter)

\* collect_tests, line 217: the tree ensure_valid_test_names is given.
Validated(category, maybe_filter) == category

collect_tests(opts) ==
  LET maybe_filter == IF opts.filter_override.some
                      THEN opts.filter_override
                      ELSE parse_cli_arg_filter(opts.arg)
      category == opts.strategy.category
  IN IF ~opts.strategy.ok
     THEN [ok |-> FALSE, error |-> opts.strategy.error]
     ELSE IF is_empty(CheckedForTests(category, maybe_filter))
     THEN [ok |-> FALSE, error |-> "NoTestsFound"]
     ELSE IF ~ensure_valid_test_names(Validated(category, maybe_filter)).ok
     THEN ensure_valid_test_names(Validated(category, maybe_filter))
     ELSE [ok |-> TRUE, category |-> Filtered(category, maybe_filter)]

\* collect_and_run_tests up to its call of run_tests: collect_tests_or_exit
\* prints the error and exits the process, or hands the tree to run_tests.
CollectTestsOrExit ==
  /\ pc = "collect"
  /\ collected' = collect_tests(options)
  /\ IF collected'.ok
     THEN /\ tree' = collected'.category
          /\ pc' = "run_tests"
          /\ UNCHANGED stderr
     ELSE /\ stderr' = Append(stderr, <<"error", collected'.error>>)
          /\ pc' = "exit"
          /\ UNCHANGED tree
  /\ UNCHANGED <<parallelism, stack, tests, test, test_iterator, pending,
                 thread_pool_pending, sender, receiver, workers, pending_tests,
                 failures, runs, ends, options, subject, last_op>>

\* ---------------------------------------------------------------- tree operations
Filters == {<<>>, <<"1">>, <<"a", ":", ":", "2">>, <<"z">>}

FilterChildren(filter) ==
  /\ subject' = filter_children(subject, filter)
  /\ last_op' = [op |-> "filter_children", arg |-> filter, input |-> subject,
                 output |-> <<subject'>>]
  /\ UNCHANGED <<options, collected>>

\* partition(p); the caller goes on with one of the two sides.
Partition(p, side) ==
  /\ last_op' = [op |-> "partition", arg |-> p, input |-> subject,
                 output |-> partition(subject, p)]
  /\ subject' = last_op'.output[side]
  /\ UNCHANGED <<options, collected>>

IntoFlatCategory ==
  /\ subject' = into_flat_category(subject)
  /\ last_op' = [op |-> "into_flat_category", arg |-> <<>>, input |-> subject,
                 output |-> <<subject'>>]
  /\ UNCHANGED <<options, collected>>

\* ---------------------------------------------------------------- the file system
\* A directory on disk is [kind |-> "dir", name, entries], entries being the
\* set of what it holds: directories, regular files and symbolic links. A
\* file name is a string, one token a character; a path joins names by "/".
File(name) == [kind |-> "file", name |-> name]
Symlink(name) == [kind |-> "symlink", name |-> name]
Dir(name, entries) == [kind |-> "dir", name |-> name, entries |-> entries]

\* The characters file names are written with, in the order of their bytes.
ByteOrder == <<".", "/", "A", "D", "E", "M", "R", "a", "b", "d", "e", "h",
               "j", "l", "m", "r", "s", "t">>
Byte(c) == CHOOSE i \in 1..Len(ByteOrder) : ByteOrder[i] = c

\* char::to_ascii_lowercase, str::to_ascii_lowercase.
LowerChar(c) ==
  CASE c = "A" -> "a" [] c = "D" -> "d" [] c = "E" -> "e" [] c = "M" -> "m"
    [] c = "R" -> "r" [] OTHER -> c
to_ascii_lowercase(s) == [i \in 1..Len(s) |-> LowerChar(s[i])]

\* Ord of OsString: the names compared byte by byte.
RECURSIVE LessName(_, _)
LessName(a, b) ==
  IF a = <<>> THEN b # <<>>
  ELSE IF b = <<>> THEN FALSE
  ELSE IF Head(a) = Head(b) THEN LessName(Tail(a), Tail(b))
  ELSE Byte(Head(a)) < Byte(Head(b))

\* Path::join.
Join(path, name) == path \o <<"/">> \o name

\* Path::file_stem: the name up to its last '.', the whole name when it has
\* none or only a leading one.
LastDot(name) ==
  IF \E i \in 2..Len(name) : name[i] = "."
  THEN CHOOSE i \in 2..Len(name) :
         name[i] = "." /\ \A k \in (i + 1)..Len(name) : name[k] # "."
  ELSE 0
file_stem(name) ==
  IF LastDot(name) = 0 THEN name ELSE SubSeq(name, 1, LastDot(name) - 1)

\* Path::exists for the file called name in a directory.
Exists(dir, name) == \E e \in dir.entries : e.name = name

\* The names the directories on disk are built from, in byte order: a hidden
\* file, a readme, two files with the same stem, two directories, a symbolic
\* link and the file the per-directory strategy looks for.
ReadmeName == <<"R", "E", "A", "D", "M", "E", ".", "m", "d">>
MarkerName == <<"m", ".", "j">>
Candidates ==
  << File(<<".", "h">>), File(ReadmeName), File(<<"a", ".", "j">>),
     File(<<"a", ".", "t">>), Dir(<<"b">>, {}), Dir(<<"d">>, {}),
     Symlink(<<"l", ".", "t">>), File(MarkerName) >>

\* The sets of entries a directory can hold: made of the candidates from the
\* i-th on, of at most n entries counting the nested ones, with directories
\* nested at most d deep.
RECURSIVE EntrySets(_, _, _)
EntrySets(i, n, d) ==
  IF i > Len(Candidates) \/ n = 0 THEN {{}}
  ELSE LET c == Candidates[i]
           Present(k) ==
             IF c.kind # "dir" THEN (IF k = 1 THEN {c} ELSE {})
             ELSE IF d >= 1
                  THEN {Dir(c.name, es) : es \in EntrySets(1, k - 1, d - 1)}
                  ELSE {}
       IN EntrySets(i + 1, n, d)
            \cup UNION {{{e} \cup rest : e \in Present(k),
                                         rest \in EntrySets(i + 1, n - k, d)} :
                          k \in 1..n}

\* The base directories: "s", holding at most MaxEntries entries.
Bases == {Dir(<<"s">>, es) : es \in EntrySets(1, MaxEntries, 2)}

\* ---------------------------------------------------------------- strategies
\* helpers.rs, read_dir_entries: the entries that are neither hidden nor a
\* readme, sorted by file name. Every directory can be read.
Retained(e) ==
  /\ ~(e.name # <<>> /\ Head(e.name) = ".")
  /\ to_ascii_lowercase(e.name) # <<"r", "e", "a", "d", "m", "e", ".", "m", "d">>

RECURSIVE sort_by_key(_)
sort_by_key(entries) ==
  IF entries = {} THEN <<>>
  ELSE LET first == CHOOSE e \in entries :
                      \A o \in entries \ {e} : LessName(e.name, o.name)
       IN <<first>> \o sort_by_key(entries \ {first})

read_dir_entries(dir) == sort_by_key({e \in dir.entries : Retained(e)})

\* helpers.rs, append_to_category_name: format!("{}::{}", ..).
append_to_category_name(category_name, new_part) ==
  category_name \o <<":", ":">> \o new_part

\* collect_test_per_directory: the children collected for the directory dir
\* found at dir_path, or the error that ends the collection.
RECURSIVE collect_test_per_directory(_, _, _, _)
collect_test_per_directory(category_name, dir_path, dir, dir_test_file_name) ==
  LET entries == read_dir_entries(dir)
      is_dir_empty == entries = <<>>
      RECURSIVE Loop(_, _, _)
      Loop(i, vec_tests, found_dir) ==
        IF i > Len(entries)
        THEN IF ~found_dir /\ ~is_dir_empty
             THEN [ok |-> FALSE, error |-> "Other",
                   message |-> [text |-> "Could not find", file |-> dir_test_file_name,
                                dir |-> dir_path]]
             ELSE [ok |-> TRUE, children |-> vec_tests]
        ELSE IF entries[i].kind # "dir"
        THEN Loop(i + 1, vec_tests, found_dir)
        ELSE LET path == Join(dir_path, entries[i].name)
                 name == append_to_category_name(category_name, entries[i].name)
             IN IF Exists(entries[i], dir_test_file_name)
                THEN Loop(i + 1,
                          Append(vec_tests, [kind |-> "Test", name |-> name,
                                         path |-> Join(path, dir_test_file_name)]),
                          TRUE)
                ELSE LET sub == collect_test_per_directory(name, path, entries[i],
                                                           dir_test_file_name)
                     IN IF ~sub.ok THEN sub
                        ELSE IF sub.children # <<>>
                        THEN Loop(i + 1,
                                  Append(vec_tests, [kind |-> "Category", name |-> name,
                                                 path |-> path,
                                                 children |-> sub.children]),
                                  TRUE)
                        ELSE Loop(i + 1, vec_tests, TRUE)
  IN Loop(1, <<>>, FALSE)

\* TestPerDirectoryCollectionStrategy::collect_tests.
TestPerDirectoryCollectionStrategy(file_name, dir) ==
  LET children == collect_test_per_directory(dir.name, dir.name, dir, file_name)
  IN IF ~children.ok THEN children
     ELSE [ok |-> TRUE,
           category |-> [kind |-> "Category", name |-> dir.name, path |-> dir.name,
                         children |-> children.children]]

\* The file patterns given to the per-file strategy: none, \.t$, b/ and one
\* that is no regular expression. Regex::new and Regex::is_match on them.
EndsWith(text) == [kind |-> "ends_with", text |-> text]
ContainsText(text) == [kind |-> "contains", text |-> text]
NotARegex == [kind |-> "invalid", text |-> <<>>]
Patterns == {None, Some(EndsWith(<<".", "t">>)), Some(ContainsText(<<"b", "/">>)),
             Some(NotARegex)}

is_match(pattern, text) ==
  IF pattern.kind = "ends_with"
  THEN /\ Len(text) >= Len(pattern.text)
       /\ SubSeq(text, Len(text) - Len(pattern.text) + 1, Len(text)) = pattern.text
  ELSE Contains(text, pattern.text)

\* A variant of Matched: the pattern is matched against the file name.
MatchedFileName(path, file_name) == file_name

\* collect_test_per_file, line 57: what the pattern is matched against.
Matched(path, file_name) == path

\* collect_test_per_file: the children collected for the directory dir found
\* at dir_path.
RECURSIVE collect_test_per_file(_, _, _, _)
collect_test_per_file(category_name, dir_path, dir, pattern) ==
  LET entries == read_dir_entries(dir)
      child(e) ==
        LET path == Join(dir_path, e.name)
        IN IF e.kind = "dir"
           THEN LET name == append_to_category_name(category_name, e.name)
                    children == collect_test_per_file(name, path, e, pattern)
                IN IF children # <<>>
                   THEN <<[kind |-> "Category", name |-> name, path |-> path,
                           children |-> children]>>
                   ELSE <<>>
           ELSE IF e.kind = "file"
           THEN IF pattern.some /\ ~is_match(pattern.value, Matched(path, e.name))
                THEN <<>>
                ELSE <<[kind |-> "Test",
                        name |-> append_to_category_name(category_name,
                                                         file_stem(e.name)),
                        path |-> path]>>
           ELSE <<>>
  IN Concat([i \in 1..Len(entries) |-> child(entries[i])])

\* TestPerFileCollectionStrategy::collect_tests.
TestPerFileCollectionStrategy(file_pattern, dir) ==
  IF file_pattern.some /\ file_pattern.value.kind = "invalid"
  THEN [ok |-> FALSE, error |-> "Other",
        message |-> [text |-> "regex", file |-> <<>>, dir |-> <<>>]]
  ELSE [ok |-> TRUE,
        category |-> [kind |-> "Category", name |-> dir.name, path |-> dir.name,
                      children |-> collect_test_per_file(dir.name, dir.name, dir,
                                                         file_pattern)]]

\* What the map function of a FileTestMapperStrategy can do with a test:
\* "parse" gives the test with data, "split" gives a category of two tests
\* for a file whose name ends in .t, "reject" gives an error for a file whose
\* name ends in .j.
Mappers == {"parse", "split", "reject"}
WithData(t) == [kind |-> "Test", name |-> t.name, path |-> t.path, data |-> <<"x">>]
map(mapper, t) ==
  IF mapper = "split" /\ is_match(EndsWith(<<".", "t">>), t.path)
  THEN [ok |-> TRUE,
        value |-> [kind |-> "Category", name |-> t.name, path |-> t.path,
                   children |->
                     << WithData([name |-> append_to_category_name(t.name, <<"a">>),
                                  path |-> t.path]),
                        WithData([name |-> append_to_category_name(t.name, <<"b">>),
                                  path |-> t.path]) >>]]
  ELSE IF mapper = "reject" /\ is_match(EndsWith(<<".", "j">>), t.path)
  THEN [ok |-> FALSE, error |-> "Other",
        message |-> [text |-> "map", file |-> t.path, dir |-> <<>>]]
  ELSE [ok |-> TRUE, value |-> WithData(t)]

\* A variant of NextChild: the children are taken from the last to the first.
NextChildReversed(children, i) == children[Len(children) - i + 1]

\* map_category, line 41: `for child in category.children`.
NextChild(children, i) == children[i]

\* FileTestMapperStrategy::map_category.
RECURSIVE map_category(_, _)
map_category(mapper, category) ==
  LET RECURSIVE Loop(_, _)
      Loop(i, new_children) ==
        IF i > Len(category.children)
        THEN [ok |-> TRUE,
              category |-> [kind |-> "Category", name |-> category.name,
                            path |-> category.path, children |-> new_children]]
        ELSE LET child == NextChild(category.children, i)
                 mapped == IF child.kind = "Category"
                           THEN map_category(mapper, child)
                           ELSE map(mapper, child)
             IN IF ~mapped.ok THEN mapped
                ELSE Loop(i + 1,
                          Append(new_children,
                                 IF child.kind = "Category" THEN mapped.category
                                 ELSE mapped.value))
  IN Loop(1, <<>>)

\* The strategies a FileTestMapperStrategy is built on, and
\* TestCollectionStrategy::collect_tests of each.
PerDirectory == [kind |-> "per_directory", file_name |-> MarkerName]
PerFile(file_pattern) == [kind |-> "per_file", file_pattern |-> file_pattern]
BaseStrategies == {PerDirectory, PerFile(None), PerFile(Some(NotARegex))}

base_strategy_collect_tests(strategy, dir) ==
  IF strategy.kind = "per_directory"
  THEN TestPerDirectoryCollectionStrategy(strategy.file_name, dir)
  ELSE TestPerFileCollectionStrategy(strategy.file_pattern, dir)

\* FileTestMapperStrategy::collect_tests.
FileTestMapperStrategy(base_strategy, mapper, dir) ==
  LET category == base_strategy_collect_tests(base_strategy, dir)
  IN IF ~category.ok THEN category ELSE map_category(mapper, category.category)

\* strategy.collect_tests(&base) of each strategy, applied once to the
\* directory on disk.
CollectPerDirectory ==
  /\ strategy_op.op = "none"
  /\ strategy_op' = [op |-> "per_directory", strategy |-> PerDirectory,
                     result |-> TestPerDirectoryCollectionStrategy(MarkerName, base)]
  /\ UNCHANGED base

CollectPerFile(file_pattern) ==
  /\ strategy_op.op = "none"
  /\ strategy_op' = [op |-> "per_file", strategy |-> PerFile(file_pattern),
                     result |-> TestPerFileCollectionStrategy(file_pattern, base)]
  /\ UNCHANGED base

CollectMapped(base_strategy, mapper) ==
  /\ strategy_op.op = "none"
  /\ strategy_op' = [op |-> "mapped", strategy |-> base_strategy, mapper |-> mapper,
                     result |-> FileTestMapperStrategy(base_strategy, mapper, base)]
  /\ UNCHANGED base

\* ---------------------------------------------------------------- Parallelism
\* The content FILE_TEST_RUNNER_PARALLELISM can have (None: it is not set) and
\* what std::thread::available_parallelism() can give (None: an error).
Digits == <<"0", "1", "2", "3", "4", "5", "6", "7", "8", "9">>
EnvVars == {None, Some(<<>>), Some(<<"0">>), Some(<<"1">>), Some(<<"2">>),
            Some(<<"0", "2">>), Some(<<"+", "2">>), Some(<<"-", "1">>),
            Some(<<"x">>)}
Available == {None} \cup {Some(n) : n \in 1..(MaxParallelism + 1)}

\* str::parse::<usize>: an optional '+' and then decimal digits, at least
\* one. (No string of EnvVars is long enough to overflow usize.)
RECURSIVE DecimalValue(_)
DecimalValue(digits) ==
  IF digits = <<>> THEN 0
  ELSE DecimalValue(SubSeq(digits, 1, Len(digits) - 1)) * 10
         + (CHOOSE i \in 1..Len(Digits) : Digits[i] = digits[Len(digits)]) - 1
parse(v) ==
  LET digits == IF v # <<>> /\ Head(v) = "+" THEN Tail(v) ELSE v
  IN IF digits # <<>> /\ \A i \in 1..Len(digits) : digits[i] \in Range(Digits)
     THEN Some(DecimalValue(digits))
     ELSE None

\* Parallelism::from_env: the amount Parallelism::new is given.
from_env(e) ==
  Parallelism(~e.no_capture,
              IF e.var.some /\ parse(e.var.value).some
              THEN parse(e.var.value).value ELSE -1,
              IF e.available.some THEN e.available.value ELSE 0)

\* The threads of a Parallelism: the workers 1..max and, as thread 0, the one
\* that calls set_parallelism.
PoolThreads(n) == 0..n

\* Parallelism::new(max_parallelism) and Semaphore::new(max_permits).
ParallelismNew(max_parallelism) ==
  /\ parallelism_max = max_parallelism
  /\ permits = [max |-> max_parallelism, used |-> 0]
  /\ pool = [t \in PoolThreads(max_parallelism) |-> "idle"]

\* let parallelism = Parallelism::from_env().
FromEnv ==
  /\ parallelism_max = 0
  /\ parallelism_max' = from_env(env)
  /\ permits' = [max |-> from_env(env), used |-> 0]
  /\ pool' = [t \in PoolThreads(from_env(env)) |-> "idle"]
  /\ UNCHANGED <<env, started, requested>>

\* A variant of Full: one more permit than max is given.
FullAbove(p) == p.used > p.max

\* Semaphore::acquire, the condition of its while loop.
Full(p) == p.used >= p.max

\* A variant of MustWait: an `if` in the place of the `while`, a thread that
\* was woken takes a permit without looking at the count again.
MustWaitOnce(state, p) == state = "idle" /\ Full(p)

\* Semaphore::acquire, its while loop: the condition is evaluated when the
\* thread comes in and again each time condvar.wait returns.
MustWait(state, p) == Full(p)

\* on_test_start, that is Semaphore::acquire: a worker that is about to run a
\* test, or that was woken while waiting, takes a permit or waits on the
\* condition variable.
OnTestStart(t) ==
  /\ t # 0
  /\ pool[t] \in {"idle", "woken"}
  /\ IF MustWait(pool[t], permits)
     THEN /\ pool' = [pool EXCEPT ![t] = "waiting"]
          /\ UNCHANGED <<permits, started>>
     ELSE /\ permits' = [permits EXCEPT !.used = @ + 1]
          /\ pool' = [pool EXCEPT ![t] = "running"]
          /\ started' = [some |-> TRUE,
                         running |-> Cardinality({w \in DOMAIN pool : pool[w] = "running"}),
                         returned |-> requested.returned,
                         calling |-> requested.calling]
  /\ UNCHANGED <<env, parallelism_max, requested>>

\* A variant of NotifiesAfterRelease: release wakes nobody.
NotifiesAfterReleaseNever(p) == FALSE

\* Semaphore::release, `if permits.used < permits.max`, p being the permits
\* after `permits.used -= 1`.
NotifiesAfterRelease(p) == p.used < p.max

\* on_test_end, that is Semaphore::release up to drop(permits).
OnTestEnd(t) ==
  /\ pool[t] = "running"
  /\ permits' = [permits EXCEPT !.used = @ - 1]
  /\ pool' = [pool EXCEPT ![t] = IF NotifiesAfterRelease(permits')
                                 THEN "notify_one" ELSE "idle"]
  /\ UNCHANGED <<env, parallelism_max, started, requested>>

\* Semaphore::release, condvar.notify_one(): one waiting thread, if any, is
\* woken.
NotifyOne(t) ==
  /\ pool[t] = "notify_one"
  /\ IF \E w \in DOMAIN pool : pool[w] = "waiting"
     THEN \E w \in DOMAIN pool :
            /\ pool[w] = "waiting"
            /\ pool' = [pool EXCEPT ![t] = "idle", ![w] = "woken"]
     ELSE pool' = [pool EXCEPT ![t] = "idle"]
  /\ UNCHANGED <<env, parallelism_max, permits, started, requested>>

\* set_parallelism(n), that is Semaphore::set_max(n) up to drop(permits).
SetParallelism(n) ==
  /\ parallelism_max # 0
  /\ pool[0] = "idle"
  /\ permits' = [permits EXCEPT !.max = n]
  /\ IF n > permits.max
     THEN /\ pool' = [pool EXCEPT ![0] = "notify_all"]
          /\ requested' = [requested EXCEPT !.calling = n]
     ELSE /\ requested' = [returned |-> n, calling |-> 0]
          /\ UNCHANGED pool
  /\ UNCHANGED <<env, parallelism_max, started>>

\* Semaphore::set_max, condvar.notify_all(), and the return of set_parallelism.
NotifyAll ==
  /\ parallelism_max # 0
  /\ pool[0] = "notify_all"
  /\ pool' = [t \in DOMAIN pool |->
                IF t = 0 THEN "idle"
                ELSE IF pool[t] = "waiting" THEN "woken" ELSE pool[t]]
  /\ requested' = [returned |-> requested.calling, calling |-> 0]
  /\ UNCHANGED <<env, parallelism_max, permits, started>>

\* ---------------------------------------------------------------- Notify
\* The threads that call wait_timeout; any thread may call notify.
Waiters == 1..MaxWaiters
Durations == {"zero", "positive"}

\* A thread outside wait_timeout that has not called it yet.
NotWaiting ==
  [pc |-> "idle", duration |-> "none", result |-> FALSE, woken |-> FALSE,
   entered_after_notify |-> FALSE, returned_after_notify |-> FALSE]

\* Notify::default().
NotifyDefault ==
  /\ notified = FALSE
  /\ waiters = [t \in Waiters |-> NotWaiting]
  /\ notify_called = FALSE

\* A variant of IsNotified: the flag is not looked at on entry.
NeverNotified == FALSE

\* wait_timeout, line 29: `if *notified`.
IsNotified == notified

\* wait_timeout up to condvar.wait_for: returns true at once when the flag is
\* set, else gives the mutex up and waits; a wait of no duration is over as
\* soon as it starts.
WaitTimeout(t, duration) ==
  /\ waiters[t].pc \in {"idle", "returned"}
  /\ waiters' =
       [waiters EXCEPT ![t] =
          IF IsNotified
          THEN [pc |-> "returned", duration |-> duration, result |-> TRUE,
                woken |-> FALSE, entered_after_notify |-> notify_called,
                returned_after_notify |-> notify_called]
          ELSE [pc |-> IF duration = "zero" THEN "timed_out" ELSE "blocked",
                duration |-> duration, result |-> FALSE, woken |-> FALSE,
                entered_after_notify |-> notify_called,
                returned_after_notify |-> FALSE]]
  /\ UNCHANGED <<notified, notify_called>>

\* condvar.wait_for: the duration elapses while the thread is blocked.
Timeout(t) ==
  /\ waiters[t].pc = "blocked"
  /\ waiters' = [waiters EXCEPT ![t].pc = "timed_out"]
  /\ UNCHANGED <<notified, notify_called>>

\* A variant of Woken: condvar.notify_one().
WokenOne(blocked) == IF blocked = {} THEN {} ELSE {CHOOSE t \in blocked : TRUE}

\* notify, line 42: condvar.notify_all() wakes the threads blocked.
Woken(blocked) == blocked

\* Notify::notify, under the mutex.
NotifyCall ==
  /\ notified' = TRUE
  /\ notify_called' = TRUE
  /\ waiters' = [t \in Waiters |->
                   IF t \in Woken({w \in Waiters : waiters[w].pc = "blocked"})
                   THEN [waiters[t] EXCEPT !.pc = "woken", !.woken = TRUE]
                   ELSE waiters[t]]

\* wait_timeout, line 35: the thread has the mutex again and returns the flag.
WaitReturn(t) ==
  /\ waiters[t].pc \in {"woken", "timed_out"}
  /\ waiters' = [waiters EXCEPT ![t].pc = "returned", ![t].result = notified,
                                ![t].returned_after_notify = notify_called]
  /\ UNCHANGED <<notified, notify_called>>

\* ---------------------------------------------------------------- specifications
\* Nothing is collected and no tree operation is applied.
CollectIdle ==
  /\ options = [strategy |-> [ok |-> FALSE], filter_override |-> [some |-> FALSE],
                arg |-> [some |-> FALSE]]
  /\ collected = [ok |-> FALSE]
  /\ subject = CollectedTestCategory(<<>>, <<>>)
  /\ last_op = [op |-> "none"]

\* No strategy is applied, no Parallelism or Notify is in use and no message
\* is built.
StrategyIdle ==
  /\ base = [kind |-> "dir", name |-> <<>>, entries |-> {}]
  /\ strategy_op = [op |-> "none"]

ParallelismIdle ==
  /\ env = [no_capture |-> TRUE, var |-> None, available |-> None]
  /\ parallelism_max = 0
  /\ permits = [max |-> 0, used |-> 0]
  /\ pool = <<>>
  /\ started = [some |-> FALSE]
  /\ requested = [returned |-> 0, calling |-> 0]

NotifyIdle ==
  /\ notified = FALSE
  /\ waiters = <<>>
  /\ notify_called = FALSE

MessageIdle == message = [built |-> FALSE, result |-> Passed]

\* No pool was made: there is no monitor thread.
NoMonitor == "none"
MonitorIdle ==
  /\ mutex = "free"
  /\ monitor = NoMonitor
  /\ finished = FALSE
  /\ reported = EmptyBag

AuxIdle == StrategyIdle /\ ParallelismIdle /\ NotifyIdle /\ MessageIdle /\ MonitorIdle

Init == EngineInit /\ CaptureIdle /\ CollectIdle /\ AuxIdle

Next ==
  \/ RunTests /\ UNCHANGED <<captureVars, collectVars, auxVars>>
  \/ RunCategory /\ UNCHANGED <<captureVars, collectVars, auxVars>>
  \/ SeqStart /\ UNCHANGED <<captureVars, collectVars, auxVars>>
  \/ SeqReturn /\ UNCHANGED <<captureVars, collectVars, auxVars>>
  \/ SeqPanic /\ UNCHANGED <<captureVars, collectVars, auxVars>>
  \/ QueueTest /\ UNCHANGED <<captureVars, collectVars, auxVars>>
  \/ QueueSend /\ UNCHANGED <<captureVars, collectVars, auxVars>>
  \/ ReceiveResult /\ UNCHANGED <<captureVars, collectVars, auxVars>>
  \/ WorkerRecv /\ UNCHANGED <<captureVars, collectVars, auxVars>>
  \/ \E value \in BagToSet(workers.running) : WorkerReturn(value) /\ UNCHANGED <<captureVars, collectVars, auxVars>>
  \/ \E value \in BagToSet(workers.running) : WorkerPanic(value) /\ UNCHANGED <<captureVars, collectVars, auxVars>>
  \/ Descend /\ UNCHANGED <<captureVars, collectVars, auxVars>>
  \/ ReturnCategory /\ UNCHANGED <<captureVars, collectVars, auxVars>>
  \/ Finish /\ UNCHANGED <<captureVars, collectVars, auxVars>>

Spec == Init /\ [][Next]_vars

\* The engine with a run function that returns from every invocation. The
\* main thread and the workers are threads of the operating system: while
\* one of them can take a step, one is taken.
NextReturns ==
  \/ RunTests /\ UNCHANGED <<captureVars, collectVars, auxVars>>
  \/ RunCategory /\ UNCHANGED <<captureVars, collectVars, auxVars>>
  \/ SeqStart /\ UNCHANGED <<captureVars, collectVars, auxVars>>
  \/ SeqReturn /\ UNCHANGED <<captureVars, collectVars, auxVars>>
  \/ QueueTest /\ UNCHANGED <<captureVars, collectVars, auxVars>>
  \/ QueueSend /\ UNCHANGED <<captureVars, collectVars, auxVars>>
  \/ ReceiveResult /\ UNCHANGED <<captureVars, collectVars, auxVars>>
  \/ WorkerRecv /\ UNCHANGED <<captureVars, collectVars, auxVars>>
  \/ \E value \in BagToSet(workers.running) : WorkerReturn(value) /\ UNCHANGED <<captureVars, collectVars, auxVars>>
  \/ Descend /\ UNCHANGED <<captureVars, collectVars, auxVars>>
  \/ ReturnCategory /\ UNCHANGED <<captureVars, collectVars, auxVars>>
  \/ Finish /\ UNCHANGED <<captureVars, collectVars, auxVars>>

\* The trees termination is followed over: up to MaxTests tests in specs
\* and in specs::a, which gives batches of one test, batches larger than the
\* pool, a batch after a batch, categories without tests and the empty run.
ReturnsTrees == {Tree(n) : n \in {c \in TestCounts : c[3] = 0 /\ c[4] = 0}}

InitReturns == Init /\ tree \in ReturnsTrees

SpecReturns == InitReturns /\ [][NextReturns]_vars /\ WF_vars(NextReturns)

\* The engine with the monitor of its pool. The statements of the main
\* thread that lock the mutex of pending_tests wait until it is free.
idleVars == <<captureVars, collectVars, strategyVars, parallelismVars, notifyVars,
              messageVars>>

\* The trees of the runs the monitor is followed in: two batches, one of the
\* tests of specs and then one of the tests of specs::a.
MonitorTrees ==
  {Tree(n) : n \in {c \in TestCounts : c[1] > 0 /\ c[2] > 0 /\ c[3] = 0 /\ c[4] = 0}}

InitMonitor == Init /\ tree \in MonitorTrees

NextMonitor ==
  \/ RunTests /\ SpawnMonitor /\ UNCHANGED idleVars
  \/ RunCategory /\ UNCHANGED <<idleVars, monitorVars>>
  \/ SeqStart /\ UNCHANGED <<idleVars, monitorVars>>
  \/ SeqReturn /\ UNCHANGED <<idleVars, monitorVars>>
  \/ SeqPanic /\ UNCHANGED <<idleVars, monitorVars>>
  \/ mutex = "free" /\ QueueTest /\ UNCHANGED <<idleVars, monitorVars>>
  \/ QueueSend /\ UNCHANGED <<idleVars, monitorVars>>
  \/ (receiver # <<>> => mutex = "free") /\ ReceiveResult /\ UNCHANGED <<idleVars, monitorVars>>
  \/ WorkerRecv /\ UNCHANGED <<idleVars, monitorVars>>
  \/ \E value \in BagToSet(workers.running) : WorkerReturn(value) /\ UNCHANGED <<idleVars, monitorVars>>
  \/ \E value \in BagToSet(workers.running) : WorkerPanic(value) /\ UNCHANGED <<idleVars, monitorVars>>
  \/ Descend /\ UNCHANGED <<idleVars, monitorVars>>
  \/ ReturnCategory /\ UNCHANGED <<idleVars, monitorVars>>
  \/ Finish /\ UNCHANGED <<idleVars, monitorVars>>
  \/ MonitorWake /\ UNCHANGED idleVars
  \/ \E long_tests \in SUBSET pending_tests :
       MonitorReport(long_tests) /\ UNCHANGED idleVars

SpecMonitor == InitMonitor /\ [][NextMonitor]_vars

CaptureFuncs == {"from_maybe_panic", "from_maybe_panic_or_result"}

EngineIdle ==
  /\ tree = CollectedTestCategory(<<"specs">>, <<>>)
  /\ parallelism = 0
  /\ pc = "idle"
  /\ stack = <<>>
  /\ tests = <<>>
  /\ test = NoTest
  /\ test_iterator = 0
  /\ pending = 0
  /\ thread_pool_pending = 0
  /\ sender = <<>>
  /\ receiver = <<>>
  /\ workers = NoWorkers
  /\ pending_tests = {}
  /\ failures = <<>>
  /\ stderr = <<>>
  /\ runs = <<>>
  /\ ends = <<>>

InitCapture == EngineIdle /\ CaptureInit /\ CollectIdle /\ AuxIdle

NextCapture ==
  \/ \E t \in Threads, func \in CaptureFuncs : EnterScope(t, func) /\ UNCHANGED <<engineVars, collectVars, auxVars>>
  \/ \E t \in Threads : InstallLocalHook(t) /\ UNCHANGED <<engineVars, collectVars, auxVars>>
  \/ \E t \in Threads : ClosureReturns(t) /\ UNCHANGED <<engineVars, collectVars, auxVars>>
  \/ \E t \in Threads : ClosurePanics(t) /\ UNCHANGED <<engineVars, collectVars, auxVars>>
  \/ \E t \in Threads : RestoreLocalHook(t) /\ UNCHANGED <<engineVars, collectVars, auxVars>>
  \/ \E t \in Threads : LeaveScope(t) /\ UNCHANGED <<engineVars, collectVars, auxVars>>

SpecCapture == InitCapture /\ [][NextCapture]_vars

\* The scopes together with panics of threads that are in no scope, in a
\* process that registered no hook of its own and runs with RUST_BACKTRACE
\* set: while a scope is active the process-wide hook is the delegating one
\* whatever the host's was, and the backtrace only adds bytes to what a hook
\* writes.
InitOutside == InitCapture /\ host_hook = "default" /\ rust_backtrace

NextOutside ==
  \/ NextCapture
  \/ \E t \in Threads : OutsidePanic(t) /\ UNCHANGED <<engineVars, collectVars, auxVars>>

SpecOutside == InitOutside /\ [][NextOutside]_vars

InitCollect ==
  /\ tree = CollectedTestCategory(<<>>, <<>>)
  /\ parallelism = 0
  /\ pc = "collect"
  /\ stack = <<>>
  /\ tests = <<>>
  /\ test = NoTest
  /\ test_iterator = 0
  /\ pending = 0
  /\ thread_pool_pending = 0
  /\ sender = <<>>
  /\ receiver = <<>>
  /\ workers = NoWorkers
  /\ pending_tests = {}
  /\ failures = <<>>
  /\ stderr = <<>>
  /\ runs = <<>>
  /\ ends = <<>>
  /\ CaptureIdle
  /\ options \in [strategy : StrategyResults, filter_override : FilterOverrides,
                   arg : Args]
  /\ collected = [ok |-> FALSE]
  /\ subject = CollectedTestCategory(<<>>, <<>>)
  /\ last_op = [op |-> "none"]
  /\ AuxIdle

NextCollect ==
  \/ CollectTestsOrExit /\ UNCHANGED <<captureVars, auxVars>>
  \/ Next

SpecCollect == InitCollect /\ [][NextCollect]_vars

InitTree ==
  /\ EngineIdle
  /\ CaptureIdle
  /\ options = [strategy |-> [ok |-> FALSE], filter_override |-> None, arg |-> None]
  /\ collected = [ok |-> FALSE]
  /\ subject \in TreesUpTo({"1", "2"}, MaxNodes)
  /\ last_op = [op |-> "none"]
  /\ AuxIdle

NextTree ==
  \/ \E filter \in Filters : FilterChildren(filter) /\ UNCHANGED <<engineVars, captureVars, auxVars>>
  \/ \E p \in Filters, side \in {1, 2} :
       Partition(p, side) /\ UNCHANGED <<engineVars, captureVars, auxVars>>
  \/ IntoFlatCategory /\ UNCHANGED <<engineVars, captureVars, auxVars>>

SpecTree == InitTree /\ [][NextTree]_vars

InitStrategy ==
  /\ EngineIdle /\ CaptureIdle /\ CollectIdle
  /\ base \in Bases
  /\ strategy_op = [op |-> "none"]
  /\ ParallelismIdle /\ NotifyIdle /\ MessageIdle /\ MonitorIdle

NextStrategy ==
  \/ CollectPerDirectory
       /\ UNCHANGED <<engineVars, captureVars, collectVars, parallelismVars, notifyVars, messageVars, monitorVars>>
  \/ \E file_pattern \in Patterns : CollectPerFile(file_pattern)
       /\ UNCHANGED <<engineVars, captureVars, collectVars, parallelismVars, notifyVars, messageVars, monitorVars>>
  \/ \E base_strategy \in BaseStrategies, mapper \in Mappers :
       CollectMapped(base_strategy, mapper)
       /\ UNCHANGED <<engineVars, captureVars, collectVars, parallelismVars, notifyVars, messageVars, monitorVars>>

SpecStrategy == InitStrategy /\ [][NextStrategy]_vars

\* Parallelism::from_env in every environment.
InitFromEnv ==
  /\ EngineIdle /\ CaptureIdle /\ CollectIdle /\ StrategyIdle
  /\ env \in [no_capture : BOOLEAN, var : EnvVars, available : Available]
  /\ parallelism_max = 0
  /\ permits = [max |-> 0, used |-> 0]
  /\ pool = <<>>
  /\ started = [some |-> FALSE]
  /\ requested = [returned |-> 0, calling |-> 0]
  /\ NotifyIdle /\ MessageIdle /\ MonitorIdle

NextFromEnv ==
  FromEnv /\ UNCHANGED <<engineVars, captureVars, collectVars, strategyVars, notifyVars, messageVars, monitorVars>>

SpecFromEnv == InitFromEnv /\ [][NextFromEnv]_vars

\* A Parallelism made by Parallelism::new, its workers and a thread that
\* calls set_parallelism.
InitParallelism ==
  /\ EngineIdle /\ CaptureIdle /\ CollectIdle /\ StrategyIdle
  /\ env = [no_capture |-> TRUE, var |-> None, available |-> None]
  /\ \E max_parallelism \in 1..MaxParallelism :
       /\ ParallelismNew(max_parallelism)
       /\ requested = [returned |-> max_parallelism, calling |-> 0]
  /\ started = [some |-> FALSE]
  /\ NotifyIdle /\ MessageIdle /\ MonitorIdle

NextParallelism ==
  \/ \E t \in DOMAIN pool : OnTestStart(t)
       /\ UNCHANGED <<engineVars, captureVars, collectVars, strategyVars, notifyVars, messageVars, monitorVars>>
  \/ \E t \in DOMAIN pool : OnTestEnd(t)
       /\ UNCHANGED <<engineVars, captureVars, collectVars, strategyVars, notifyVars, messageVars, monitorVars>>
  \/ \E t \in DOMAIN pool : NotifyOne(t)
       /\ UNCHANGED <<engineVars, captureVars, collectVars, strategyVars, notifyVars, messageVars, monitorVars>>
  \/ \E n \in 1..(MaxParallelism + 1) : SetParallelism(n)
       /\ UNCHANGED <<engineVars, captureVars, collectVars, strategyVars, notifyVars, messageVars, monitorVars>>
  \/ NotifyAll
       /\ UNCHANGED <<engineVars, captureVars, collectVars, strategyVars, notifyVars, messageVars, monitorVars>>

SpecParallelism == InitParallelism /\ [][NextParallelism]_vars

\* What a thread of the pool does without anybody asking for it: a test that
\* runs ends (the run function returns, then on_test_end), a thread in release
\* or set_max goes on to its notify, and a thread that condvar.wait woke gets
\* the mutex again and looks at the count. To come to on_test_start for
\* another test, or to call set_parallelism, is left to the callers.
Proceeds(t) ==
  /\ t \in DOMAIN pool
  /\ \/ OnTestEnd(t)
     \/ NotifyOne(t)
     \/ t = 0 /\ NotifyAll
     \/ pool[t] = "woken" /\ OnTestStart(t)
  /\ UNCHANGED <<engineVars, captureVars, collectVars, strategyVars, notifyVars, messageVars, monitorVars>>

SpecParallelismLive ==
  SpecParallelism /\ \A t \in PoolThreads(MaxParallelism) : WF_vars(Proceeds(t))

\* A Notify shared by MaxWaiters threads.
InitNotify ==
  /\ EngineIdle /\ CaptureIdle /\ CollectIdle /\ StrategyIdle /\ ParallelismIdle
  /\ NotifyDefault
  /\ MessageIdle /\ MonitorIdle

NextNotify ==
  \/ \E t \in Waiters, duration \in Durations : WaitTimeout(t, duration)
       /\ UNCHANGED <<engineVars, captureVars, collectVars, strategyVars, parallelismVars, messageVars, monitorVars>>
  \/ \E t \in Waiters : Timeout(t)
       /\ UNCHANGED <<engineVars, captureVars, collectVars, strategyVars, parallelismVars, messageVars, monitorVars>>
  \/ NotifyCall
       /\ UNCHANGED <<engineVars, captureVars, collectVars, strategyVars, parallelismVars, messageVars, monitorVars>>
  \/ \E t \in Waiters : WaitReturn(t)
       /\ UNCHANGED <<engineVars, captureVars, collectVars, strategyVars, parallelismVars, messageVars, monitorVars>>

SpecNotify == InitNotify /\ [][NextNotify]_vars

\* A thread that was woken, or whose wait is over, gets the mutex again and
\* returns: notify holds the mutex for three statements only.
SpecNotifyLive ==
  SpecNotify /\ \A t \in Waiters : WF_vars(WaitReturn(t) /\ UNCHANGED <<engineVars, captureVars, collectVars, strategyVars, parallelismVars, messageVars, monitorVars>>)

\* ---------------------------------------------------------------- the engine's claims
Last(seq) == seq[Len(seq)]
Count(seq, x) == Cardinality({i \in 1..Len(seq) : seq[i] = x})
Names(seq) == [i \in 1..Len(seq) |-> seq[i].name]
IsPrefix(a, b) == Len(a) <= Len(b) /\ a = SubSeq(b, 1, Len(a))

\* The names of the tree's Test leaves, left to right.
LeafNames == Names(AllTests(tree))
TestNames == Range(LeafNames)
EndNames == Names(ends)
Done == pc \in {"passed", "failed"}

\* The outputs of the Failed entries of a result, at any depth, left to right.
RECURSIVE FailedOutputs(_)
FailedOutputs(r) ==
  IF r.tag = "Failed" THEN <<r.output>>
  ELSE IF r.tag = "SubTests"
       THEN Concat([i \in 1..Len(r.sub_tests) |-> FailedOutputs(r.sub_tests[i].result)])
       ELSE <<>>
HasFailedEntry(r) == FailedOutputs(r) # <<>>

\* Every result with at most two levels of sub tests, each of at most two entries.
ResultLeaves == {Passed, Ignored, Failed(<<>>), Failed(<<"e1">>)}
SubTestsOver(results) ==
  {SubTests(<<>>)}
    \cup {SubTests(<<SubTestResult("s1", r)>>) : r \in results}
    \cup {SubTests(<<SubTestResult("s1", r[1]), SubTestResult("s2", r[2])>>) :
            r \in results \X results}
ResultUniverse == ResultLeaves \cup SubTestsOver(ResultLeaves \cup SubTestsOver(ResultLeaves))

\* The order a run goes through the tests: a category's own tests in the
\* order of its children, then its sub-categories in the order of its children.
RECURSIVE RunOrder(_)
RunOrder(category) ==
  Names(SelectKind(category.children, "Test")) \o
  Concat([i \in 1..Len(category.children) |->
            IF category.children[i].kind = "Category"
            THEN RunOrder(category.children[i]) ELSE <<>>])

\* What the engine printed about tests: the names it announced, the results.
TestEvents == SelectSeq(stderr, LAMBDA e : e[1] \in {"test", "end"})
FailedSignals == Cardinality({i \in 1..Len(stderr) : stderr[i][1] = "failed of"})

CategoryOf(name) == SubSeq(name, 1, Len(name) - 1)
Started == Range(runs)
Queued ==
  Range(Names(sender)) \cup pending_tests
    \cup (IF pc = "pool_send" THEN {test.name} ELSE {})
Ended == Range(EndNames)
InFlight == (Started \cup Queued) \ Ended

\* C1: the run function is invoked at most once per Test leaf and at most one
\* result is processed per invocation, under every interleaving of the
\* workers; when run_tests has finished, every leaf was run exactly once and
\* ended exactly once, the failure list holds one record per failed result
\* and the reported total is the number of leaves.
C1_EveryTestRunAndEndedOnce ==
  LET leaves == LeafNames
      ended == EndNames
  IN /\ Range(runs) \cup Range(ended) \subseteq Range(leaves)
     /\ \A n \in Range(leaves) :
          Count(runs, n) <= 1 /\ Count(ended, n) <= Count(runs, n)
     /\ Done =>
          /\ \A n \in Range(leaves) : Count(runs, n) = 1 /\ Count(ended, n) = 1
          /\ Len(failures) =
               Cardinality({i \in 1..Len(ends) : HasFailedEntry(ends[i].result)})
          /\ Last(Last(stderr)) = Len(leaves)
          /\ Len(ends) = Len(leaves)

\* C1's case: a pool of 2 ran a batch of 3 tests, 2 of them failed, and the
\* results came back in another order than the tests were started.
C1_Witness ==
  /\ pc = "failed"
  /\ parallelism = 2
  /\ Len(tests) = 3
  /\ Len(failures) = 2
  /\ EndNames # runs

\* C2: there is no fail-fast: a batch is left only when every test of it has
\* ended, whatever failed; the "<n> failed of <total>" signal is raised at
\* most once, it is the last thing the run does, and when it is raised every
\* test of every category has ended.
C2_NoFailFast ==
  /\ FailedSignals <= 1
  /\ (FailedSignals = 1) <=> (pc = "failed")
  /\ pc = "descend" => \A k \in 1..Len(tests) : tests[k].name \in Ended
  /\ pc = "failed" =>
       /\ Last(stderr)[1] = "failed of"
       /\ stack = <<>>
       /\ TestNames \subseteq Ended

\* C2's case: the first result of the run was a failure, and the tests after
\* it, one of them in a later category, still ran before the signal.
C2_Witness ==
  /\ pc = "failed"
  /\ Len(ends) = 3
  /\ HasFailedEntry(ends[1].result)
  /\ ~HasFailedEntry(ends[3].result)
  /\ CategoryOf(ends[1].name) # CategoryOf(ends[3].name)

\* C3 (as claimed): a panic of the run function on a pool worker does not end
\* the worker thread, and every test a worker took is still running or has
\* its result in the result channel or received by the main thread.
C3_WorkerPanicBecomesFailed ==
  /\ workers.dead = 0
  /\ pc \in {"pool_loop", "pool_send"} =>
       test_iterator - Len(sender) - (IF pc = "pool_send" THEN 1 ELSE 0)
         = BagCardinality(workers.running) + Len(receiver) + (Len(tests) - pending)

\* is_failed on every result of ResultUniverse, against the Failed entries
\* the result holds.
IsFailedCases ==
  /\ \A r \in ResultUniverse : is_failed(r) <=> HasFailedEntry(r)
  /\ ~is_failed(Passed) /\ ~is_failed(Ignored) /\ ~is_failed(SubTests(<<>>))
  /\ is_failed(Failed(<<>>))

\* C8: is_failed is true of exactly the results holding a Failed entry at
\* some depth; the failure list holds, in the order the results were
\* processed, one record for each test whose result is failed and nothing
\* else; and a finished run signals failure iff the list is not empty.
C8_FailureList ==
  /\ IsFailedCases
  /\ [i \in 1..Len(failures) |-> failures[i].test.name]
       = Names(SelectSeq(ends, LAMBDA e : HasFailedEntry(e.result)))
  /\ \A i \in 1..Len(failures) : failures[i].test \in Range(AllTests(tree))
  /\ Done => ((pc = "failed") <=> (failures # <<>>))

\* C8's case: a finished run of three tests in which the second result
\* failed only through a nested sub test and the others passed.
C8_Witness ==
  /\ pc = "failed"
  /\ Len(ends) = 3
  /\ Len(failures) = 1
  /\ ends[2].result.tag = "SubTests"
  /\ failures[1].test.name = ends[2].name

\* C9: with parallelism 1 there is no pool and nothing is ever queued; the
\* tests are run in the order of the tree, a test is announced only when the
\* result of the one before it was printed, and the printed events are
\* the announcement and the result of each test in turn.
C9_SequentialOrder ==
  parallelism = 1 =>
    LET order == RunOrder(tree)
        events == TestEvents
    IN /\ workers = NoWorkers /\ sender = <<>> /\ receiver = <<>> /\ pending_tests = {}
       /\ IsPrefix(runs, order)
       /\ IsPrefix(EndNames, runs)
       /\ Len(runs) - Len(ends) = (IF pc \in {"seq_running", "panicked"} THEN 1 ELSE 0)
       /\ \A i \in 1..Len(events) :
            /\ events[i][1] = (IF i % 2 = 1 THEN "test" ELSE "end")
            /\ events[i][2] = order[(i + 1) \div 2]

\* C9's case: a finished sequential run of three tests, two in one batch.
C9_Witness ==
  /\ parallelism = 1
  /\ Done
  /\ Len(runs) = 3
  /\ Len(tests) = 2

\* C10: the tests in flight (queued or started, and not yet received) always
\* belong to one category; and when a test is queued or started, every test
\* directly in an ancestor category of its category has ended.
C10_CategoriesNeverOverlap ==
  LET ended == Ended
  IN /\ \A n \in InFlight, m \in InFlight : CategoryOf(n) = CategoryOf(m)
     /\ \A n \in Started \cup Queued, m \in TestNames :
          (CategoryOf(m) # CategoryOf(n) /\ IsPrefix(CategoryOf(m), CategoryOf(n)))
            => m \in ended

\* C10's case: the pool ran the batch of specs::a, whose results came back
\* out of order, and then a test of its sub-category specs::a::b started.
C10_Witness ==
  /\ parallelism = 2
  /\ Len(ends) >= 2
  /\ CategoryOf(ends[1].name) = <<"specs", "a">>
  /\ CategoryOf(ends[2].name) = <<"specs", "a">>
  /\ EndNames # SubSeq(runs, 1, Len(ends))
  /\ \E n \in Started : CategoryOf(n) = <<"specs", "a", "b">>

\* ---------------------------------------------------------------- the capture scopes' claims
\* The frames of thread t, innermost last, as <<t, k>> positions.
FramesOf(t) == {<<t, k>> : k \in 1..Len(frames[t])}
AllFrames == UNION {FramesOf(t) : t \in Threads}
FrameAt(p) == frames[p[1]][p[2]]

\* The scope's closure panicked and catch_unwind has given Err.
Panicked(frame) == frame.pc \in {"caught", "restored"} /\ ~frame.result.ok

\* The text of one panic raised in the scope named id.
PanicText(id) ==
  IF rust_backtrace THEN <<PanicInfo(id), Newline, Backtrace(id)>> ELSE <<PanicInfo(id)>>

\* The hook the slot of thread t has to hold: the one of the innermost scope
\* of t whose closure has not finished, or none.
InnermostOpen(t) ==
  LET open == {k \in 1..Len(frames[t]) : frames[t][k].pc \in {"running", "caught"}}
  IN IF open = {} THEN NoHook
     ELSE <<t, CHOOSE k \in open : \A j \in open : j <= k>>

\* C4: a scope whose closure panicked returns Failed with an output holding
\* that panic's message; a scope whose closure returned gives Passed for
\* from_maybe_panic and exactly the closure's result for
\* from_maybe_panic_or_result.
C4_ScopeResults ==
  returned.kind = "returned" =>
    IF returned.result.ok
    THEN /\ returned.value = returned.result.value
         /\ returned.func = "from_maybe_panic" => returned.value = Passed
    ELSE /\ returned.value.tag = "Failed"
         /\ PanicInfo(returned.id) \in Range(returned.value.output)

\* C4's case: from_maybe_panic_or_result has returned the Failed result of
\* its closure unchanged, on a thread still inside an outer scope.
C4_Witness ==
  /\ returned.kind = "returned"
  /\ returned.func = "from_maybe_panic_or_result"
  /\ returned.result.ok
  /\ returned.value = Failed(<<<<"output", 0, 0>>>>)
  /\ returned.id[2] = 2

\* C5: under every interleaving of the threads' scope entries, panics and
\* scope exits, the buffer of a scope holds only text of panics raised on the
\* scope's own thread, the text of the scope's panic is in it as soon as the
\* panic was caught, and the Failed output the scope returns is that text.
C5_OwnPanicTextOnly ==
  /\ \A p \in AllFrames :
       /\ \A b \in Range(FrameAt(p).panic_message) : b[2] \in {0, p[1]}
       /\ Panicked(FrameAt(p)) => PanicInfo(FrameAt(p).id) \in Range(FrameAt(p).panic_message)
  /\ (returned.kind = "returned" /\ ~returned.result.ok) =>
       /\ \A b \in Range(returned.value.output) : b[2] \in {0, returned.id[1]}
       /\ PanicInfo(returned.id) \in Range(returned.value.output)

\* C5's case: two threads are inside their own scope at the same time and
\* the closures of both have panicked.
C5_Witness ==
  \E t \in Threads, u \in Threads :
    /\ t # u
    /\ frames[t] # <<>> /\ Panicked(TopFrame(t))
    /\ frames[u] # <<>> /\ Panicked(TopFrame(u))

\* C6: scopes nest with stack discipline on a thread: the thread's slot
\* always holds the hook of the innermost scope whose closure is not
\* finished, so a scope that has exited left the hook installed before it
\* was entered (or none); and the buffer of a scope whose closure panicked
\* holds the text of that one panic and nothing of an inner or outer scope.
C6_StackDiscipline ==
  /\ \A t \in Threads : local_hook[t] = InnermostOpen(t)
  /\ \A p \in AllFrames :
       FrameAt(p).panic_message =
         (IF Panicked(FrameAt(p)) THEN PanicText(FrameAt(p).id) ELSE <<>>)

\* C6's case: an inner scope whose closure panicked has exited, and then the
\* closure of the outer scope on the same thread panicked.
C6_Witness ==
  \E t \in Threads :
    /\ Len(frames[t]) = 1
    /\ Panicked(TopFrame(t))
    /\ returned.kind = "returned"
    /\ returned.id = <<t, 2>>
    /\ ~returned.result.ok

\* C7 (as claimed): whenever no scope is active, the process-wide hook is the
\* one the host program had installed before the first scope was entered.
C7_HookRestored == hook_count = 0 => global_hook = host_hook

\* ---------------------------------------------------------------- collection's claims
\* The tree the strategy returned, and its Test leaves.
StrategyTree == options.strategy.category
StrategyTests == AllTests(StrategyTree)

\* The filter in force: filter_override, else the first argument when it is
\* neither empty nor a flag.
GivenFilter ==
  IF options.filter_override.some THEN options.filter_override
  ELSE IF options.arg.some /\ options.arg.value # <<>>
       THEN (IF options.arg.value[1] = "-" THEN None ELSE options.arg)
       ELSE None

\* The tests of seq whose name contains the filter in force.
Selected(seq) ==
  IF GivenFilter.some
  THEN SelectSeq(seq, LAMBDA t : Contains(t.name, GivenFilter.value))
  ELSE seq

\* A name with a character that is not alphanumeric, '_' or ':'.
BadName(name) ==
  \E k \in 1..Len(name) : name[k] \notin {"s", "a", "b", "z", "q", "1", "2", "_", ":"}
BadNames(seq) == SelectSeq(Names(seq), BadName)

\* No step of the engine was taken: nothing ran, nothing was printed by it.
NothingExecuted ==
  /\ runs = <<>> /\ ends = <<>> /\ failures = <<>>
  /\ stack = <<>> /\ workers = NoWorkers /\ sender = <<>> /\ receiver = <<>>
  /\ TestEvents = <<>> /\ FailedSignals = 0

\* C11: collect_tests fails with NoTestsFound exactly when the strategy's
\* tree holds no Test; when the tree's names are valid and the filter removes
\* every test, collect_tests succeeds with a root without children, and
\* run_tests on it returns without running anything and without a failure.
C11_EmptyAfterFilterIsNotAnError ==
  (pc # "collect" /\ options.strategy.ok) =>
    /\ (~collected.ok /\ collected.error = "NoTestsFound") <=> (StrategyTests = <<>>)
    /\ (StrategyTests # <<>> /\ BadNames(StrategyTests) = <<>>
          /\ Selected(StrategyTests) = <<>>) =>
         /\ collected.ok
         /\ collected.category.children = <<>>
         /\ tree = collected.category
         /\ pc \in {"run_tests", "returned"}
         /\ NothingExecuted
         /\ stderr = <<>>

\* C11's case: the tree held tests, the filter removed them all, and
\* run_tests has returned.
C11_Witness ==
  /\ pc = "returned"
  /\ Len(StrategyTests) = 2
  /\ collected.ok
  /\ tree.children = <<>>

\* C12 (as claimed): the test names of a tree collect_tests returns are
\* pairwise distinct and made of alphanumeric characters, '_' and ':'.
C12_ReturnedNamesValidAndDistinct ==
  collected.ok =>
    LET names == Names(AllTests(collected.category))
    IN /\ \A i \in 1..Len(names) : ~BadName(names[i])
       /\ \A i \in 1..Len(names), j \in 1..Len(names) : names[i] = names[j] => i = j

\* C13: when the strategy fails, its tree holds no test, or a name of its
\* unfiltered tree is invalid, the process exits with that error (the first
\* of the three that applies) and nothing is executed; otherwise the tree
\* given to run_tests is the strategy's tree filtered; and the run function
\* is only ever invoked for tests of the tree collect_tests returned.
C13_CollectValidateFilterExecute ==
  /\ pc = "collect" => (NothingExecuted /\ ~collected.ok)
  /\ pc # "collect" =>
       IF ~options.strategy.ok
       THEN /\ pc = "exit" /\ NothingExecuted
            /\ collected = [ok |-> FALSE, error |-> options.strategy.error]
       ELSE IF StrategyTests = <<>>
       THEN /\ pc = "exit" /\ NothingExecuted
            /\ collected = [ok |-> FALSE, error |-> "NoTestsFound"]
       ELSE IF BadNames(StrategyTests) # <<>>
       THEN /\ pc = "exit" /\ NothingExecuted
            /\ collected = [ok |-> FALSE, error |-> "InvalidTestName",
                            name |-> BadNames(StrategyTests)[1]]
       ELSE /\ pc # "exit"
            /\ collected.ok
            /\ tree = collected.category
            /\ AllTests(tree) = Selected(StrategyTests)
            /\ Range(runs) \subseteq Range(Names(AllTests(tree)))

\* C13's case: the run was aborted for an invalid name although the filter
\* in force selects another test and not the one with the invalid name.
C13_Witness ==
  /\ pc = "exit"
  /\ collected.error = "InvalidTestName"
  /\ Selected(StrategyTests) # <<>>
  /\ BadNames(Selected(StrategyTests)) = <<>>

\* ---------------------------------------------------------------- the tree operations' claims
\* The categories below category, a category before the ones it holds.
RECURSIVE SubCategories(_)
SubCategories(category) ==
  Concat([i \in 1..Len(category.children) |->
            IF category.children[i].kind = "Category"
            THEN <<category.children[i]>> \o SubCategories(category.children[i])
            ELSE <<>>])

\* <<path, name>> of the categories of a tree, its root included.
CategoryIds(category) ==
  {<<c.path, c.name>> : c \in {category} \cup Range(SubCategories(category))}

\* Position p is visited before position q when the tree is walked depth
\* first, left to right.
Before(p, q) ==
  \E k \in 1..Len(p) :
    /\ k <= Len(q)
    /\ SubSeq(p, 1, k - 1) = SubSeq(q, 1, k - 1)
    /\ p[k] < q[k]

\* <<position of a category, position of one of its children>>, for every
\* category of the tree.
Edges(category) ==
  UNION {{<<c.path, c.children[i].path>> : i \in 1..Len(c.children)} :
           c \in {category} \cup Range(SubCategories(category))}

\* Every child in out is a child of the same category in in, and the children
\* of a category of out are in the order the walk of in meets them.
WellPlaced(out, in) ==
  /\ Edges(out) \subseteq Edges(in)
  /\ \A c \in {out} \cup Range(SubCategories(out)) :
       \A i \in 1..Len(c.children), j \in 1..Len(c.children) :
         i < j => Before(c.children[i].path, c.children[j].path)

\* The number of Test leaves reachable in a tree.
Leaves(category) == Cardinality(Range(AllTests(category)))

\* No category below the root of the tree is without a test.
NoEmptyCategory(category) ==
  \A c \in Range(SubCategories(category)) : AllTests(c) # <<>>

\* C14: filter_children(s) keeps exactly the tests whose name contains s,
\* unmodified and in order, and exactly the categories that hold such a test;
\* what is kept stays under the same parent in the same relative order; the
\* category it is called on stays, with its name and path, even when empty.
C14_FilterChildren ==
  last_op.op = "filter_children" =>
    LET in == last_op.input
        out == last_op.output[1]
        s == last_op.arg
    IN /\ out.kind = "Category" /\ out.name = in.name /\ out.path = in.path
       /\ AllTests(out) = SelectSeq(AllTests(in), LAMBDA t : Contains(t.name, s))
       /\ CategoryIds(out) =
            {<<in.path, in.name>>} \cup
            {<<c.path, c.name>> : c \in
               {d \in Range(SubCategories(in)) :
                  \E t \in Range(AllTests(d)) : Contains(t.name, s)}}
       /\ Len(SubCategories(out)) = Cardinality(CategoryIds(out)) - 1
       /\ WellPlaced(out, in)

\* C14's case: the filter "a::2" kept one test of a category and dropped
\* a test with the category that held nothing else.
C14_Witness ==
  /\ last_op.op = "filter_children"
  /\ last_op.arg = <<"a", ":", ":", "2">>
  /\ Len(SubCategories(last_op.input)) = 2
  /\ Len(AllTests(last_op.input)) = 2
  /\ Len(SubCategories(subject)) = 1
  /\ Len(AllTests(subject)) = 1

\* C15: filter_children is idempotent: filtering its output again with the
\* same substring changes nothing.
C15_FilterIdempotent ==
  last_op.op = "filter_children" =>
    filter_children(last_op.output[1], last_op.arg) = last_op.output[1]

\* C15's case: the filter removed a test and a category that became empty
\* and kept another test.
C15_Witness ==
  /\ last_op.op = "filter_children"
  /\ Len(SubCategories(last_op.input)) > Len(SubCategories(subject))
  /\ Len(AllTests(last_op.input)) > Len(AllTests(subject))
  /\ AllTests(subject) # <<>>
  /\ \E c \in Range(SubCategories(last_op.input)) :
       /\ AllTests(c) # <<>>
       /\ <<c.path, c.name>> \notin CategoryIds(subject)

\* C16: the test counts of the two sides of partition(p) add up to the
\* input's; the matching side holds exactly the tests p holds for and the
\* other side exactly the others, each once and unaltered.
C16_PartitionCounts ==
  last_op.op = "partition" =>
    LET in == last_op.input
        matching == last_op.output[1]
        non_matching == last_op.output[2]
        p == last_op.arg
    IN /\ test_count(matching) + test_count(non_matching) = test_count(in)
       /\ AllTests(matching) = SelectSeq(AllTests(in), LAMBDA t : Contains(t.name, p))
       /\ AllTests(non_matching) = SelectSeq(AllTests(in), LAMBDA t : ~Contains(t.name, p))
       /\ Range(AllTests(matching)) \cap Range(AllTests(non_matching)) = {}

\* C16's case: both sides got tests, one category is split over both.
C16_Witness ==
  /\ last_op.op = "partition"
  /\ test_count(last_op.input) = 3
  /\ test_count(last_op.output[1]) = 2
  /\ test_count(last_op.output[2]) = 1
  /\ \E c \in Range(SubCategories(last_op.output[1])),
         d \in Range(SubCategories(last_op.output[2])) : c.path = d.path

\* C17: both roots of partition carry the input's name and path; every
\* category of a side is a category of the input, with its name and path; it
\* sits under the same parent and siblings keep their relative order.
C17_PartitionStructure ==
  last_op.op = "partition" =>
    \A side \in {1, 2} :
      LET out == last_op.output[side]
      IN /\ out.kind = "Category"
         /\ out.name = last_op.input.name
         /\ out.path = last_op.input.path
         /\ CategoryIds(out) \subseteq CategoryIds(last_op.input)
         /\ Len(SubCategories(out)) = Cardinality(CategoryIds(out)) - 1
         /\ WellPlaced(out, last_op.input)

\* C17's case: the matching side keeps a category nested in a category, and
\* the other side a test of the root and none of the two categories.
C17_Witness ==
  /\ last_op.op = "partition"
  /\ \E c \in Range(SubCategories(last_op.output[1])) : Len(c.path) = 2
  /\ SubCategories(last_op.output[2]) = <<>>
  /\ AllTests(last_op.output[2]) # <<>>
  /\ Len(SubCategories(last_op.input)) = 2

\* C18: no output of filter_children, partition or into_flat_category holds,
\* below its root, a category without a test, whatever empty categories the
\* input held.
C18_NoEmptyCategoryLeft ==
  last_op.op # "none" =>
    \A k \in 1..Len(last_op.output) : NoEmptyCategory(last_op.output[k])

\* C18's case: the input of partition held an empty category and a category
\* whose tests all went to one side.
C18_Witness ==
  /\ last_op.op = "partition"
  /\ \E c \in Range(SubCategories(last_op.input)) : AllTests(c) = <<>>
  /\ \E c \in Range(SubCategories(last_op.input)) :
       /\ AllTests(c) # <<>>
       /\ <<c.path, c.name>> \in CategoryIds(last_op.output[1])
       /\ <<c.path, c.name>> \notin CategoryIds(last_op.output[2])

\* C19: into_flat_category gives a category with the root's name and path
\* whose children are Tests only: the Test leaves of the input, each once
\* and unaltered, in depth-first left-to-right order; flattening its output
\* gives the output again.
C19_IntoFlatCategory ==
  last_op.op = "into_flat_category" =>
    LET in == last_op.input
        out == last_op.output[1]
    IN /\ out.kind = "Category" /\ out.name = in.name /\ out.path = in.path
       /\ \A i \in 1..Len(out.children) : out.children[i].kind = "Test"
       /\ Range(out.children) = Range(AllTests(in))
       /\ Len(out.children) = Leaves(in)
       /\ \A i \in 1..Len(out.children), j \in 1..Len(out.children) :
            i < j => Before(out.children[i].path, out.children[j].path)
       /\ into_flat_category(out) = out

\* C19's case: the input held a test after a category that holds a nested
\* category with a test.
C19_Witness ==
  /\ last_op.op = "into_flat_category"
  /\ Len(subject.children) = 2
  /\ Len(last_op.input.children) = 2
  /\ last_op.input.children[1].kind = "Category"
  /\ last_op.input.children[2].kind = "Test"
  /\ Len(SubCategories(last_op.input)) = 2

\* C20: for the tree at hand, after any sequence of the operations, and for
\* every category in it, test_count is the number of Test leaves reachable
\* and is_empty is true exactly when that number is zero.
C20_TestCountAndIsEmpty ==
  \A c \in {subject} \cup Range(SubCategories(subject)) :
    /\ test_count(c) = Leaves(c)
    /\ is_empty(c) <=> (Leaves(c) = 0)

\* C20's case: a tree made only of two nested categories: test_count is 0
\* and is_empty is true although the root has a child.
C20_Witness ==
  /\ Len(SubCategories(subject)) = 2
  /\ Len(subject.children) = 1
  /\ test_count(subject) = 0
  /\ is_empty(subject)

\* ---------------------------------------------------------------- the strategies' claims
\* What a directory listing shows of a directory: its entries that are
\* neither hidden nor a readme.
Visible(dir) == {e \in dir.entries : Retained(e)}
VisibleDirs(dir) == {e \in Visible(dir) : e.kind = "dir"}

\* <<path, directory>> of the directories the per-directory strategy goes
\* through: the one it is given and, in each of them, the visible
\* sub-directories that do not hold the marker file.
RECURSIVE TraversedDirs(_, _)
TraversedDirs(path, dir) ==
  {<<path, dir>>}
    \cup UNION {TraversedDirs(Join(path, e.name), e) :
                  e \in {x \in VisibleDirs(dir) : ~Exists(x, MarkerName)}}

\* The error of the per-directory strategy for a marker file it misses.
MissingMarker(result) ==
  ~result.ok /\ result.error = "Other" /\ result.message.text = "Could not find"

\* The paths of the categories and tests of a tree, its root included.
NodePaths(category) ==
  {category.path} \cup {c.path : c \in Range(SubCategories(category))}
    \cup {t.path : t \in Range(AllTests(category))}

\* C21 (as claimed): the per-directory strategy fails with the missing-marker
\* error exactly when a directory it goes through shows entries, none of
\* them a directory, and does not hold the marker file; a directory without
\* entries raises no error and puts nothing in the tree.
C21_MissingMarkerExactly ==
  strategy_op.op = "per_directory" =>
    LET traversed == TraversedDirs(base.name, base)
        result == strategy_op.result
    IN /\ MissingMarker(result) <=>
            \E d \in traversed :
              /\ Visible(d[2]) # {}
              /\ VisibleDirs(d[2]) = {}
              /\ ~Exists(d[2], MarkerName)
       /\ result.ok =>
            \A d \in traversed :
              (Visible(d[2]) = {} /\ d[1] # base.name) =>
                d[1] \notin NodePaths(result.category)

\* The last component of a path and the path of the directory it is in.
LastSlash(path) ==
  CHOOSE i \in 0..Len(path) :
    /\ i > 0 => path[i] = "/"
    /\ \A k \in (i + 1)..Len(path) : path[k] # "/"
FileName(path) == SubSeq(path, LastSlash(path) + 1, Len(path))
Parent(path) == SubSeq(path, 1, LastSlash(path) - 1)

\* [name, path] of the test expected for every visible regular file below
\* the directory dir found at path, category_name being the name of the
\* category that stands for dir.
RECURSIVE RegularFiles(_, _, _)
RegularFiles(path, dir, category_name) ==
  {[name |-> category_name \o <<":", ":">> \o file_stem(e.name),
    path |-> Join(path, e.name)] : e \in {x \in Visible(dir) : x.kind = "file"}}
    \cup UNION {RegularFiles(Join(path, e.name), e,
                             category_name \o <<":", ":">> \o e.name) :
                  e \in VisibleDirs(dir)}

\* C22: the per-file strategy gives one Test for exactly each visible regular
\* file whose full path matches the pattern (every such file without a
\* pattern), named <category>::<stem>; every child lies in the directory of
\* its category and a sub-category is named <category>::<directory>; children
\* are in the byte order of their file names; no category below the root is
\* without a test.
C22_PerFile ==
  (strategy_op.op = "per_file" /\ strategy_op.strategy.file_pattern # Some(NotARegex)) =>
    LET pattern == strategy_op.strategy.file_pattern
        result == strategy_op.result
        expected == {f \in RegularFiles(base.name, base, base.name) :
                       pattern.some => is_match(pattern.value, f.path)}
    IN /\ result.ok
       /\ LET root == result.category
              found == AllTests(root)
              categories == {root} \cup Range(SubCategories(root))
          IN /\ root.name = base.name /\ root.path = base.name
             /\ {[name |-> t.name, path |-> t.path] : t \in Range(found)} = expected
             /\ Len(found) = Cardinality(expected)
             /\ test_count(root) = Cardinality(expected)
             /\ \A c \in categories : \A i \in 1..Len(c.children) :
                  /\ Parent(c.children[i].path) = c.path
                  /\ c.children[i].kind = "Category" =>
                       c.children[i].name =
                         c.name \o <<":", ":">> \o FileName(c.children[i].path)
                  /\ \A j \in (i + 1)..Len(c.children) :
                       LessName(FileName(c.children[i].path),
                                FileName(c.children[j].path))
             /\ NoEmptyCategory(root)

\* C22's case: a.j, a.t and b/a.t collected with the pattern \.t$: the tests
\* are s::a and s::b::a, the test count is 2.
C22_Witness ==
  /\ strategy_op.op = "per_file"
  /\ strategy_op.strategy.file_pattern = Some(EndsWith(<<".", "t">>))
  /\ base.entries = {File(<<"a", ".", "j">>), File(<<"a", ".", "t">>),
                     Dir(<<"b">>, {File(<<"a", ".", "t">>)})}
  /\ strategy_op.result.ok
  /\ test_count(strategy_op.result.category) = 2
  /\ Names(AllTests(strategy_op.result.category)) =
       << <<"s", ":", ":", "a">>, <<"s", ":", ":", "b", ":", ":", "a">> >>

\* The errors the map function gives for the tests of a tree, in the order
\* the tests are met going through the tree depth first, left to right.
MapErrors(mapper, category) ==
  SelectSeq([i \in 1..Len(AllTests(category)) |-> map(mapper, AllTests(category)[i])],
            LAMBDA r : ~r.ok)

\* out is the category in with each test replaced by what the map function
\* gives for it.
RECURSIVE SameShape(_, _, _)
SameShape(mapper, in, out) ==
  /\ out.kind = "Category" /\ out.name = in.name /\ out.path = in.path
  /\ Len(out.children) = Len(in.children)
  /\ \A i \in 1..Len(in.children) :
       IF in.children[i].kind = "Category"
       THEN SameShape(mapper, in.children[i], out.children[i])
       ELSE out.children[i] = map(mapper, in.children[i]).value

\* C23: the mapping strategy returns the error of its base strategy when that
\* fails, else the first error, in traversal order, the map function gives
\* for a test, else the base tree with every category kept (name, path,
\* number and order of children) and every test replaced in place by what
\* the map function gives for it.
C23_MappingKeepsShape ==
  strategy_op.op = "mapped" =>
    LET collected_base == base_strategy_collect_tests(strategy_op.strategy, base)
        result == strategy_op.result
    IN IF ~collected_base.ok THEN result = collected_base
       ELSE LET errors == MapErrors(strategy_op.mapper, collected_base.category)
            IN IF errors # <<>> THEN result = errors[1]
               ELSE /\ result.ok
                    /\ SameShape(strategy_op.mapper, collected_base.category,
                                 result.category)

\* C23's case: the map function rejects two of the files the per-file
\* strategy found and the error returned is the one for the first.
C23_Witness ==
  /\ strategy_op.op = "mapped"
  /\ strategy_op.strategy = PerFile(None)
  /\ strategy_op.mapper = "reject"
  /\ Len(MapErrors("reject", TestPerFileCollectionStrategy(None, base).category)) = 2
  /\ Len(AllTests(TestPerFileCollectionStrategy(None, base).category)) = 3
  /\ ~strategy_op.result.ok
  /\ strategy_op.result.message.file = <<"s", "/", "a", ".", "j">>

\* ---------------------------------------------------------------- Parallelism's claims
\* The variable holds a positive integer: decimal digits that make a number
\* above 0.
HoldsPositiveInteger(var) ==
  var.some /\ parse(var.value).some /\ parse(var.value).value > 0

\* What std::thread::available_parallelism() gives, 2 standing for an error.
AvailableOr2(e) == IF e.available.some THEN e.available.value ELSE 2

\* C24 (as claimed): the worker count is 1 when output capturing is disabled;
\* else the positive integer FILE_TEST_RUNNER_PARALLELISM holds, if it holds
\* one; else the available parallelism minus 1, and 1 if that is 0. It is
\* never below 1 and the subtraction never goes below 0.
C24_WorkerCount ==
  parallelism_max # 0 =>
    /\ parallelism_max >= 1
    /\ AvailableOr2(env) - 1 >= 0
    /\ parallelism_max =
         IF env.no_capture THEN 1
         ELSE IF HoldsPositiveInteger(env.var) THEN parse(env.var.value).value
         ELSE IF AvailableOr2(env) - 1 >= 1 THEN AvailableOr2(env) - 1 ELSE 1

\* The tests that run: the workers between on_test_start and on_test_end.
Running == {t \in DOMAIN pool : pool[t] = "running"}

\* C25: never more than max_parallelism tests run at once, whatever n
\* set_parallelism is given; and a test begins only while fewer tests run
\* than the n of the last set_parallelism that returned (max_parallelism
\* before the first), or than the n of a set_parallelism under way.
C25_SetParallelismOnlyReduces ==
  /\ Cardinality(Running) <= parallelism_max
  /\ permits.used = Cardinality(Running)
  /\ started.some =>
       \/ started.running < started.returned
       \/ started.calling # 0 /\ started.running < started.calling

\* C25's case: with two workers or more, set_parallelism(1) returned, then a
\* test began, and another worker waits in on_test_start while it runs.
C25_Witness ==
  /\ parallelism_max >= 2
  /\ requested = [returned |-> 1, calling |-> 0]
  /\ started.some /\ started.returned = 1 /\ started.running = 0
  /\ Cardinality(Running) = 1
  /\ \E t \in DOMAIN pool : pool[t] = "waiting"

\* ---------------------------------------------------------------- Notify's claims
\* C26: once notify was called the flag stays set; a wait_timeout entered
\* after that returns true without waiting; and a wait_timeout that returned
\* gave true exactly when notify had been called before it returned, false
\* only after its wait ran out of time.
C26_StickyAndMonotonic ==
  /\ notify_called => notified
  /\ \A t \in Waiters :
       /\ (waiters[t].pc # "idle" /\ waiters[t].entered_after_notify) =>
            /\ waiters[t].pc = "returned"
            /\ waiters[t].result
       /\ waiters[t].pc = "returned" =>
            /\ waiters[t].result <=> waiters[t].returned_after_notify
            /\ ~waiters[t].result => ~waiters[t].woken

\* C26's case: a wait_timeout of no duration returned false, then notify was
\* called, then a wait_timeout of another thread returned true at once.
C26_Witness ==
  \E t \in Waiters, u \in Waiters :
    /\ waiters[t].pc = "returned" /\ waiters[t].duration = "zero"
    /\ ~waiters[t].result
    /\ waiters[u].pc = "returned" /\ waiters[u].entered_after_notify
    /\ waiters[u].result

\* C27: notify leaves no thread blocked in wait_timeout, and every thread it
\* wakes returns true, without its wait having run out of time.
C27_NotifyWakesEveryWaiter ==
  /\ [](notified => \A t \in Waiters : waiters[t].pc # "blocked")
  /\ [](\A t \in Waiters :
          (waiters[t].pc = "returned" /\ waiters[t].woken) => waiters[t].result)
  /\ \A t \in Waiters :
       (waiters[t].pc = "woken") ~> (waiters[t].pc = "returned" /\ waiters[t].result)

\* C27's case: every thread was blocked in wait_timeout when notify was
\* called, and every one has returned true.
C27_Witness ==
  \A t \in Waiters :
    /\ waiters[t].pc = "returned"
    /\ waiters[t].woken
    /\ waiters[t].result

\* ---------------------------------------------------------------- the capture count's claim
\* C28: the capture count is the number of scopes active over all threads,
\* so it is never below 0 and is 0 when every scope was left; and the shared
\* handler is the process-wide hook exactly while the count is above 0, so
\* it is installed when the count goes from 0 to 1 and removed when it goes
\* from 1 to 0 only.
C28_CountIsActiveScopes ==
  /\ hook_count = SumSeq([t \in 1..MaxThreads |-> Len(frames[t])])
  /\ hook_count >= 0
  /\ (global_hook = "delegate") <=> (hook_count > 0)

\* C28's case: two threads were in a scope at once, one has left its scope
\* and the shared handler is still installed for the other.
C28_Witness ==
  /\ hook_count = 1
  /\ global_hook = "delegate"
  /\ returned.kind = "returned"
  /\ \E t \in Threads : frames[t] # <<>> /\ returned.id[1] # t

\* ---------------------------------------------------------------- the pool's claim
\* C29: the tests in flight (handed to queue_test and not yet received back)
\* are never more than the parallelism, however large the batch; so the
\* bounded channel to the workers never holds more than its capacity, and
\* there is room in it whenever a test is sent.
C29_Backpressure ==
  /\ Cardinality(InFlight) <= parallelism
  /\ Len(sender) <= parallelism
  /\ (pc = "pool_send" /\ ~AllDead) => Len(sender) < parallelism

\* C29's case: a batch of more tests than the parallelism: as many tests as
\* the parallelism are in flight and the next test of the batch has to wait
\* for a result.
C29_Witness ==
  /\ pc = "pool_loop"
  /\ parallelism = 2
  /\ Len(tests) > parallelism
  /\ test_iterator < Len(tests)
  /\ thread_pool_pending = 0
  /\ Cardinality(InFlight) = parallelism

\* ---------------------------------------------------------------- build_end_test_message's claim
\* The results build_end_test_message is given: passed, ignored, failed with
\* no output or with one of two outputs, and sub tests of these at most two
\* deep, at most two at each level.
MessageLeaves == {Passed, Ignored, Failed(<<>>), Failed(<<"e1">>), Failed(<<"e2">>)}
MessageResults ==
  MessageLeaves \cup SubTestsOver(MessageLeaves \cup SubTestsOver(MessageLeaves))

\* let (runner_output, failure_output) = build_end_test_message(result, ..).
BuildEndTestMessage ==
  /\ ~message.built
  /\ message' = [built |-> TRUE, result |-> message.result,
                 runner_output |-> build_end_test_message(message.result)[1],
                 failure_output |-> build_end_test_message(message.result)[2]]

InitMessage ==
  /\ EngineIdle /\ CaptureIdle /\ CollectIdle
  /\ StrategyIdle /\ ParallelismIdle /\ NotifyIdle /\ MonitorIdle
  /\ message \in [built : {FALSE}, result : MessageResults]

NextMessage ==
  BuildEndTestMessage
    /\ UNCHANGED <<engineVars, captureVars, collectVars, strategyVars, parallelismVars, notifyVars, monitorVars>>

SpecMessage == InitMessage /\ [][NextMessage]_vars

\* The byte strings joined by one newline between every two that follow each
\* other.
RECURSIVE JoinLines(_)
JoinLines(outputs) ==
  IF outputs = <<>> THEN <<>>
  ELSE IF Len(outputs) = 1 THEN outputs[1]
  ELSE outputs[1] \o <<"\n">> \o JoinLines(Tail(outputs))

\* C30 (as claimed): the diagnostic bytes built for a result are its output
\* when it is Failed; for SubTests, the outputs of its Failed entries at any
\* depth, in depth-first left-to-right order, joined by a single newline
\* between every two that follow each other; and nothing for passed and
\* ignored entries.
C30_DiagnosticBytes ==
  message.built =>
    message.failure_output =
      IF message.result.tag = "Failed" THEN message.result.output
      ELSE JoinLines(FailedOutputs(message.result))

\* ---------------------------------------------------------------- the monitor's claims
\* The names the monitor printed, and the tests of the batch that were handed
\* to queue_test.
ReportedNames == {r.name : r \in BagToSet(reported)}
InPoolLoop == pc \in {"pool_loop", "pool_send"}
HandedToQueue ==
  IF UsesPool(tests) THEN {tests[i].name : i \in 1..test_iterator} ELSE {}

\* C31: a test is printed as long running at most once in a run; its entry
\* has left the pending map when the monitor sleeps again, and for good; the
\* tests printed were handed to queue_test; and no test is printed once
\* receive_result has returned its result.
C31_ReportedAtMostOnce ==
  \A r \in BagToSet(reported) :
    /\ CopiesIn(r, reported) = 1
    /\ \A q \in BagToSet(reported) : q.name = r.name => q = r
    /\ r.name \notin pending_tests
    /\ r.name \in Started \cup Queued
    /\ ~r.received

\* C31's case: with two tests in the pending map the monitor printed one and
\* left the other, whose time had not come; after the result of the first
\* was received, the monitor holds the mutex again and the other is the only
\* entry it is offered.
C31_Witness ==
  /\ monitor = "locked"
  /\ Cardinality(ReportedNames) = 1
  /\ ReportedNames \subseteq Ended
  /\ Cardinality(pending_tests) = 1
  /\ pending_tests \cap ReportedNames = {}

\* The results of the batch that receive_result has returned.
ReceivedOfBatch == Cardinality({i \in 1..Len(ends) : ends[i].name \in Range(Names(tests))})

\* C32: whatever the monitor printed and evicted, every result the main
\* thread processes comes from one invocation of the run function, a test is
\* run and ended at most once, and exactly once when the run has finished;
\* the failure list holds the tests whose result is failed, in the order the
\* results were processed; and the counters of the feed/receive loop are
\* those of the tests queued and received, whether or not their entries were
\* still in the map.
C32_MonitorIsAdvisory ==
  /\ \A n \in TestNames :
       /\ Count(EndNames, n) <= Count(runs, n)
       /\ Count(runs, n) <= 1
       /\ Done => Count(EndNames, n) = 1
  /\ Names([i \in 1..Len(failures) |-> failures[i].test])
       = Names(SelectSeq(ends, LAMBDA e : is_failed(e.result)))
  /\ Done => ((pc = "failed") <=> (failures # <<>>))
  /\ InPoolLoop =>
       /\ pending = Len(tests) - ReceivedOfBatch
       /\ thread_pool_pending =
            parallelism - (test_iterator - ReceivedOfBatch)
              + (IF pc = "pool_send" THEN 1 ELSE 0)

\* C32's case: the monitor printed and evicted a test that was running; the
\* test failed later, its result was received and sits in the failure list,
\* and the run has finished.
C32_Witness ==
  /\ pc = "failed"
  /\ \E i \in 1..Len(failures) : failures[i].test.name \in ReportedNames
  /\ \E n \in TestNames : n \notin ReportedNames

\* C33 (as claimed): when the run has finished, the monitor of its pool was
\* told to stop (`finished` is set) or has left its loop.
C33_MonitorStops ==
  (Done /\ monitor # "none") => (finished \/ monitor = "ended")

\* C34: the mutex of pending_tests is held by the monitor only, and exactly
\* between its lock() and the end of that iteration of its loop, never while
\* it sleeps; the main thread and the workers hold it in no state, that is
\* neither while a run function executes nor while a thread waits on a
\* channel; and the monitor that holds it can always go on and release it.
C34_ShortCriticalSections ==
  /\ mutex \in {"free", "monitor"}
  /\ (mutex = "monitor") <=> (monitor = "locked")
  /\ monitor \in {"none", "sleeping", "ended"} => mutex = "free"
  /\ mutex = "monitor" => ENABLED MonitorReport({})

\* C34's case: the monitor holds the mutex while a worker runs a test and
\* the main thread, inside queue_test, waits for the mutex.
C34_Witness ==
  /\ mutex = "monitor"
  /\ workers.running # EmptyBag
  /\ pc = "pool_loop"
  /\ pending > 0 /\ thread_pool_pending > 0 /\ test_iterator < Len(tests)

\* C37: every key of the pending map is the name of a test of the batch that
\* was handed to queue_test and whose result receive_result has not
\* returned; and outside the feed/receive loop of a batch the map is empty
\* (unless the run was aborted by a panic).
C37_PendingMapBookkeeping ==
  /\ pending_tests \subseteq HandedToQueue \ Ended
  /\ (~InPoolLoop /\ pc # "panicked") => pending_tests = {}

\* C37's case: the first batch went through the pool and the monitor evicted
\* one of its entries; the batch is complete and the test of the next batch
\* runs with an empty map.
C37_Witness ==
  /\ pc = "seq_running"
  /\ Len(ends) >= 2
  /\ ReportedNames # {}
  /\ ReportedNames # Ended
  /\ pending_tests = {}

\* ---------------------------------------------------------------- filter and partition
\* The tests of category that are not among kept, in order.
TestsNotIn(category, kept) ==
  SelectSeq(AllTests(category), LAMBDA t : t \notin Range(AllTests(kept)))

\* C40: for every tree and substring s, the matching side of
\* partition(name contains s) is the tree filter_children(s) leaves, and the
\* non-matching side holds exactly the tests filter_children(s) removed.
C40_FilterAgreesWithPartition ==
  /\ last_op.op = "partition" =>
       LET filtered == filter_children(last_op.input, last_op.arg)
       IN /\ last_op.output[1] = filtered
          /\ AllTests(last_op.output[2]) = TestsNotIn(last_op.input, filtered)
  /\ last_op.op = "filter_children" =>
       LET sides == partition(last_op.input, last_op.arg)
       IN /\ sides[1] = last_op.output[1]
          /\ AllTests(sides[2]) = TestsNotIn(last_op.input, last_op.output[1])

\* C40's case: a tree with a category that held no test was partitioned by
\* "a::2", which spans a separator of a name; both sides got a test and the
\* matching side lost a category.
C40_Witness ==
  /\ last_op.op = "partition"
  /\ last_op.arg = <<"a", ":", ":", "2">>
  /\ \E c \in Range(SubCategories(last_op.input)) : AllTests(c) = <<>>
  /\ AllTests(last_op.output[1]) # <<>>
  /\ AllTests(last_op.output[2]) # <<>>
  /\ Len(SubCategories(last_op.output[1])) < Len(SubCategories(last_op.input))
  /\ last_op.output[1] = filter_children(last_op.input, last_op.arg)

Blocked == {t \in DOMAIN pool : pool[t] \in {"waiting", "woken"}}

\* A wake-up is pending: a thread is on its way to notify_one or notify_all,
\* or a thread that was woken has not looked at the count yet.
WakeUpPending ==
  \E t \in DOMAIN pool : pool[t] \in {"notify_one", "notify_all", "woken"}

\* The sets of workers that can be blocked together.
WorkerSets == (SUBSET (1..MaxParallelism)) \ {{}}

NoLostWakeUp ==
  (~Full(permits) /\ \E t \in DOMAIN pool : pool[t] = "waiting") => WakeUpPending

\* C38 (as claimed): no thread stays in acquire's wait while the number of
\* permits held is below the ceiling and no wake-up is pending; and, tests
\* that run coming to their end, some thread blocked in acquire eventually
\* gets its permit.
C38_NoLostWakeUp ==
  /\ []NoLostWakeUp
  /\ \A S \in WorkerSets :
       (Blocked = S) ~> (\E t \in S : t \in Running)

\* C38 (amended): no thread stays in acquire's wait while the number of
\* permits held is below the ceiling and no wake-up is pending; and, tests
\* that run coming to their end, when a permit is free while threads are
\* blocked in acquire, one of them eventually gets a permit unless no permit
\* is left before it looked: a thread that came to acquire later took it, or
\* set_max lowered the ceiling.
C38_NoLostWakeUpPermitTaken ==
  /\ []NoLostWakeUp
  /\ \A S \in WorkerSets :
       (Blocked = S /\ ~Full(permits)) ~>
         (Full(permits) \/ \E t \in S : t \in Running)

\* C38's case: a thread that waited in acquire was woken by the release of a
\* permit and runs its test while the thread that released it waits.
C38_Witness ==
  /\ permits.max = 1 /\ permits.used = 1
  /\ started.some /\ started.running = 0
  /\ \E t, w \in DOMAIN pool :
       /\ t # w /\ pool[t] = "running" /\ pool[w] = "waiting"
       /\ requested.returned = 1

\* ---------------------------------------------------------------- panics outside the scopes
\* The bytes of output were written for a panic raised at id.
RaisedAt(output, id) ==
  \A b \in Range(output) : b = Newline \/ <<b[2], b[3]>> = id

\* C39: a panic raised on a thread that is in no scope is written to the
\* buffer of no scope, whatever scopes are active on other threads: the
\* buffer of a scope, and the Failed output it returns, hold only what was
\* written for panics raised on the scope's thread while the scope was the
\* innermost one there.
C39_OutsidePanicNotCaptured ==
  /\ \A p \in AllFrames : RaisedAt(FrameAt(p).panic_message, FrameAt(p).id)
  /\ (returned.kind = "returned" /\ ~returned.result.ok) =>
       /\ returned.value.tag = "Failed"
       /\ RaisedAt(returned.value.output, returned.id)

\* C39's case: a thread in no scope has just panicked while the closure of
\* another thread's scope ran, after an earlier panic in a scope of that
\* thread was captured.
C39_Witness ==
  /\ returned.kind = "panicked_outside"
  /\ global_hook = "delegate"
  /\ frames[returned.id[1]] = <<>>
  /\ \E u \in Threads :
       /\ Len(frames[u]) = 2
       /\ Panicked(frames[u][2])
       /\ frames[u][1].pc = "running"
       /\ local_hook[u] = <<u, 1>>

\* ---------------------------------------------------------------- termination
\* run_tests has returned, or has panicked with its count of failures.
Terminated == pc \in {"passed", "failed", "returned"}

\* The main thread is in receive_result: in its recv while the channel of
\* results is empty, and on its way out with the first result otherwise.
InReceiveResult ==
  /\ pc = "pool_loop"
  /\ ~(thread_pool_pending > 0 /\ test_iterator < Len(tests))

\* C36: with a run function that returns from every invocation run_tests
\* comes to its end for every tree and parallelism; in the feed/receive loop
\* every queue_test returns and every receive_result returns with a result;
\* and the loop goes on while fewer results were received than the batch
\* has tests and is left with the result that makes them equal.
C36_Terminates ==
  /\ <>Terminated
  /\ (pc = "pool_send") ~> (pc = "pool_loop")
  /\ (InReceiveResult /\ receiver = <<>>) ~> (receiver # <<>>)
  /\ [](InPoolLoop => /\ ReceivedOfBatch < Len(tests)
                      /\ pending = Len(tests) - ReceivedOfBatch)
  /\ [][(InPoolLoop /\ ~InPoolLoop') =>
          /\ ReceivedOfBatch' = Len(tests)
          /\ ReceivedOfBatch = Len(tests) - 1]_vars

\* C36's case: a run with a pool of two workers has come to its end after a
\* batch of three tests, more than the pool and its channel take at once.
C36_Witness ==
  /\ Terminated
  /\ parallelism = 2
  /\ Len(tests) = 3
  /\ ReceivedOfBatch = 3
  /\ workers.idle = 2

====
